---- MODULE Spec2Model ----
(***************************************************************************)
(* Merge protocols of the taxonomy tool:                                   *)
(*   merge_logic.py   merge_records_by_part_number, merge_db_with_user     *)
(*   user_stage2.py   merge_db_and_user                                    *)
(*   stage2_adapter.py run_stage2_from_django (web upload path)            *)
(*                                                                         *)
(* Python values are records [t |-> type tag, v |-> payload].  A Python    *)
(* str is a sequence of one-character strings, so that strip(), lower()    *)
(* and the JSON encoder/decoder work on the characters.  A row (a dict     *)
(* keyed by column name) is a function whose DOMAIN is its key set.        *)
(***************************************************************************)
EXTENDS Integers, Sequences, FiniteSets, TLC

(* ---------------------------------------------------------------------- *)
(* Characters and strings                                                  *)
(* ---------------------------------------------------------------------- *)
Whitespace == {" ", "\t", "\n", "\r"}

UpperChars ==
  <<"A","B","C","D","E","F","G","H","I","J","K","L","M",
    "N","O","P","Q","R","S","T","U","V","W","X","Y","Z">>

LowerChars ==
  <<"a","b","c","d","e","f","g","h","i","j","k","l","m",
    "n","o","p","q","r","s","t","u","v","w","x","y","z">>

Digits == {"0","1","2","3","4","5","6","7","8","9"}

char_lower(c) ==
  IF \E i \in 1..Len(UpperChars) : UpperChars[i] = c
  THEN LowerChars[CHOOSE i \in 1..Len(UpperChars) : UpperChars[i] = c]
  ELSE c

str_lower(s) ==
  IF s = <<>> THEN <<>> ELSE [i \in 1..Len(s) |-> char_lower(s[i])]

SetMin(S) == CHOOSE m \in S : \A n \in S : m <= n
SetMax(S) == CHOOSE m \in S : \A n \in S : m >= n

str_strip(s) ==
  LET keep == {i \in 1..Len(s) : s[i] \notin Whitespace}
  IN  IF keep = {} THEN <<>> ELSE SubSeq(s, SetMin(keep), SetMax(keep))

RECURSIVE Concat(_)
Concat(ss) == IF ss = <<>> THEN <<>> ELSE Head(ss) \o Concat(Tail(ss))

Range(f) == {f[i] : i \in DOMAIN f}

(* ---------------------------------------------------------------------- *)
(* Python values                                                           *)
(* ---------------------------------------------------------------------- *)
None      == [t |-> "None",  v |-> <<>>]
FloatNaN  == [t |-> "float", v |-> <<"n","a","n">>]
PyTrue    == [t |-> "bool",  v |-> <<"T","r","u","e">>]
PyFalse   == [t |-> "bool",  v |-> <<"F","a","l","s","e">>]
Str(s)    == [t |-> "str",   v |-> s]
PyInt(ds) == [t |-> "int",   v |-> ds]
List(xs)  == [t |-> "list",  v |-> xs]
Dict(kvs) == [t |-> "dict",  v |-> kvs]

isinstance(x, ty) == x.t = ty

\* bool(x)
Truthy(x) ==
  CASE x.t = "None"  -> FALSE
    [] x.t = "bool"  -> x = PyTrue
    [] x.t = "int"   -> \E i \in 1..Len(x.v) : x.v[i] \in Digits \ {"0"}
    [] x.t = "float" -> TRUE
    [] OTHER         -> x.v # <<>>

\* a or b
py_or(a, b) == IF Truthy(a) THEN a ELSE b

\* str(x) for the scalar types
py_str(x) ==
  CASE x.t = "None" -> <<"N","o","n","e">>
    [] OTHER        -> x.v

\* dict.get(k, default) on a row
GetOr(r, k, d) == IF k \in DOMAIN r THEN r[k] ELSE d
Get(r, k)      == GetOr(r, k, None)

\* d[k] = x on an insertion-ordered dict given as a sequence of <<key, value>>
DictSet(kvs, k, x) ==
  IF \E i \in 1..Len(kvs) : kvs[i][1] = k
  THEN [i \in 1..Len(kvs) |-> IF kvs[i][1] = k THEN <<k, x>> ELSE kvs[i]]
  ELSE Append(kvs, <<k, x>>)

(* ---------------------------------------------------------------------- *)
(* merge_logic.py: utility functions                                       *)
(* ---------------------------------------------------------------------- *)
MissingWords ==
  { <<>>, <<"n","a","n">>, <<"n","o","n","e">>, <<"n","u","l","l">> }

_is_missing(x) ==
  IF x = None THEN TRUE
  ELSE IF isinstance(x, "float") /\ x = FloatNaN THEN TRUE
  ELSE IF isinstance(x, "str") THEN str_lower(str_strip(x.v)) \in MissingWords
  ELSE FALSE

_safe_str(x) == IF _is_missing(x) THEN None ELSE Str(py_str(x))

RECURSIVE _clean_for_json(_)
_clean_for_json(obj) ==
  IF isinstance(obj, "dict")
  THEN Dict([i \in 1..Len(obj.v) |->
               <<obj.v[i][1], _clean_for_json(obj.v[i][2])>>])
  ELSE IF isinstance(obj, "list")
  THEN List([i \in 1..Len(obj.v) |-> _clean_for_json(obj.v[i])])
  ELSE IF _is_missing(obj) THEN None
  ELSE obj

(* ---------------------------------------------------------------------- *)
(* json.dumps(obj, ensure_ascii=False) and json.loads(s), on the JSON      *)
(* subset null / true / false / NaN / integers / strings / arrays /        *)
(* objects (no fractions, exponents or \u escapes).                        *)
(* ---------------------------------------------------------------------- *)
json_escape_char(c) ==
  CASE c = "\"" -> <<"\\", "\"">>
    [] c = "\\" -> <<"\\", "\\">>
    [] c = "\n" -> <<"\\", "n">>
    [] c = "\t" -> <<"\\", "t">>
    [] c = "\r" -> <<"\\", "r">>
    [] OTHER    -> <<c>>

json_quote(s) ==
  <<"\"">> \o Concat([i \in 1..Len(s) |-> json_escape_char(s[i])]) \o <<"\"">>

\* parts joined by ", "
RECURSIVE JoinComma(_)
JoinComma(parts) ==
  IF parts = <<>> THEN <<>>
  ELSE IF Len(parts) = 1 THEN parts[1]
  ELSE parts[1] \o <<",", " ">> \o JoinComma(Tail(parts))

RECURSIVE json_dumps(_)
json_dumps(obj) ==
  CASE obj.t = "None"  -> <<"n","u","l","l">>
    [] obj.t = "bool"  -> IF obj = PyTrue THEN <<"t","r","u","e">>
                                          ELSE <<"f","a","l","s","e">>
    [] obj.t = "float" -> <<"N","a","N">>
    [] obj.t = "int"   -> obj.v
    [] obj.t = "str"   -> json_quote(obj.v)
    [] obj.t = "list"  ->
         <<"[">> \o JoinComma([i \in 1..Len(obj.v) |-> json_dumps(obj.v[i])])
                 \o <<"]">>
    [] obj.t = "dict"  ->
         <<"{">> \o JoinComma([i \in 1..Len(obj.v) |->
                      json_quote(obj.v[i][1]) \o <<":", " ">>
                        \o json_dumps(obj.v[i][2])])
                 \o <<"}">>

ParseFail == [ok |-> FALSE, val |-> None, next |-> 0]
ParseOk(x, n) == [ok |-> TRUE, val |-> x, next |-> n]

RECURSIVE skip_ws(_, _)
skip_ws(s, i) ==
  IF i <= Len(s) /\ s[i] \in Whitespace THEN skip_ws(s, i + 1) ELSE i

starts_with(s, i, lit) ==
  /\ i + Len(lit) - 1 <= Len(s)
  /\ SubSeq(s, i, i + Len(lit) - 1) = lit

\* the string body after an opening quote
RECURSIVE parse_string(_, _, _)
parse_string(s, i, acc) ==
  IF i > Len(s) THEN ParseFail
  ELSE IF s[i] = "\"" THEN ParseOk(Str(acc), i + 1)
  ELSE IF s[i] = "\\"
  THEN IF i + 1 > Len(s) THEN ParseFail
       ELSE CASE s[i+1] \in {"\"", "\\", "/"} ->
                   parse_string(s, i + 2, Append(acc, s[i+1]))
              [] s[i+1] = "n" -> parse_string(s, i + 2, Append(acc, "\n"))
              [] s[i+1] = "t" -> parse_string(s, i + 2, Append(acc, "\t"))
              [] s[i+1] = "r" -> parse_string(s, i + 2, Append(acc, "\r"))
              [] OTHER        -> ParseFail
  ELSE IF s[i] \in {"\n", "\t", "\r"} THEN ParseFail
  ELSE parse_string(s, i + 1, Append(acc, s[i]))

RECURSIVE scan_digits(_, _)
scan_digits(s, i) ==
  IF i <= Len(s) /\ s[i] \in Digits THEN scan_digits(s, i + 1) ELSE i

\* "-"? ( "0" | [1-9][0-9]* ), starting at i
parse_number(s, i) ==
  LET d == IF s[i] = "-" THEN i + 1 ELSE i
      e == IF d <= Len(s) /\ s[d] = "0" THEN d + 1 ELSE scan_digits(s, d)
  IN  IF e = d THEN ParseFail ELSE ParseOk(PyInt(SubSeq(s, i, e - 1)), e)

RECURSIVE parse_value(_, _), parse_elems(_, _, _), parse_members(_, _, _)
parse_value(s, i) ==
  LET j == skip_ws(s, i)
  IN  IF j > Len(s) THEN ParseFail
      ELSE CASE s[j] = "\"" -> parse_string(s, j + 1, <<>>)
             [] s[j] = "["  ->
                  LET k == skip_ws(s, j + 1)
                  IN  IF k <= Len(s) /\ s[k] = "]"
                      THEN ParseOk(List(<<>>), k + 1)
                      ELSE parse_elems(s, j + 1, <<>>)
             [] s[j] = "{"  ->
                  LET k == skip_ws(s, j + 1)
                  IN  IF k <= Len(s) /\ s[k] = "}"
                      THEN ParseOk(Dict(<<>>), k + 1)
                      ELSE parse_members(s, j + 1, <<>>)
             [] starts_with(s, j, <<"n","u","l","l">>) -> ParseOk(None, j + 4)
             [] starts_with(s, j, <<"t","r","u","e">>) -> ParseOk(PyTrue, j + 4)
             [] starts_with(s, j, <<"f","a","l","s","e">>) ->
                  ParseOk(PyFalse, j + 5)
             [] starts_with(s, j, <<"N","a","N">>) -> ParseOk(FloatNaN, j + 3)
             [] s[j] \in Digits \cup {"-"} -> parse_number(s, j)
             [] OTHER -> ParseFail

parse_elems(s, i, acc) ==
  LET r == parse_value(s, i)
  IN  IF ~r.ok THEN ParseFail
      ELSE LET k == skip_ws(s, r.next)
           IN  IF k > Len(s) THEN ParseFail
               ELSE IF s[k] = ","
               THEN parse_elems(s, k + 1, Append(acc, r.val))
               ELSE IF s[k] = "]"
               THEN ParseOk(List(Append(acc, r.val)), k + 1)
               ELSE ParseFail

parse_members(s, i, acc) ==
  LET j == skip_ws(s, i)
  IN  IF j > Len(s) \/ s[j] # "\"" THEN ParseFail
      ELSE LET ks == parse_string(s, j + 1, <<>>)
           IN  IF ~ks.ok THEN ParseFail
               ELSE LET c == skip_ws(s, ks.next)
                    IN  IF c > Len(s) \/ s[c] # ":" THEN ParseFail
                        ELSE LET r == parse_value(s, c + 1)
                             IN  IF ~r.ok THEN ParseFail
                                 ELSE LET k  == skip_ws(s, r.next)
                                          d2 == DictSet(acc, ks.val.v, r.val)
                                      IN  IF k > Len(s) THEN ParseFail
                                          ELSE IF s[k] = ","
                                          THEN parse_members(s, k + 1, d2)
                                          ELSE IF s[k] = "}"
                                          THEN ParseOk(Dict(d2), k + 1)
                                          ELSE ParseFail

\* [ok |-> FALSE] stands for json.JSONDecodeError
json_loads(s) ==
  LET r == parse_value(s, 1)
  IN  IF r.ok /\ skip_ws(s, r.next) > Len(s)
      THEN [ok |-> TRUE, val |-> r.val]
      ELSE [ok |-> FALSE, val |-> None]

(* ---------------------------------------------------------------------- *)
(* Dictionary keys of the provenance entries, as Python strings            *)
(* ---------------------------------------------------------------------- *)
k_source_system == <<"s","o","u","r","c","e","_","s","y","s","t","e","m">>
k_source_file   == <<"s","o","u","r","c","e","_","f","i","l","e">>
k_raw           == <<"r","a","w">>
k_source        == <<"s","o","u","r","c","e">>
k_file          == <<"f","i","l","e">>
k_description   == <<"d","e","s","c","r","i","p","t","i","o","n">>
s_user          == <<"u","s","e","r">>
s_user_upload   == <<"u","s","e","r","_","u","p","l","o","a","d">>

\* the outcome of a call: the returned value, or the exception that left it
Return(x) == [exc |-> "none", ret |-> x]
Raise(e)  == [exc |-> e, ret |-> None]

\* a row with no keys, {}
EmptyRow == <<>>

(* ---------------------------------------------------------------------- *)
(* merge_logic.py, Stage 1: merge_records_by_part_number                   *)
(* ---------------------------------------------------------------------- *)
\* the src dict of row r
row_source(r) ==
  Dict(<< <<k_source_system, _safe_str(Get(r, "source_system"))>>,
          <<k_source_file,   _safe_str(Get(r, "source_file"))>> >>)

\* SourceKept asking for both source fields instead of either
SourceKept_both(r) ==
  /\ Truthy(_safe_str(Get(r, "source_system")))
  /\ Truthy(_safe_str(Get(r, "source_file")))

SourceKept(r) ==
  \/ Truthy(_safe_str(Get(r, "source_system")))
  \/ Truthy(_safe_str(Get(r, "source_file")))

\* the sources list after rows[1..n]
RECURSIVE batch_sources(_, _)
batch_sources(rows, n) ==
  IF n = 0 THEN <<>>
  ELSE LET before == batch_sources(rows, n - 1)
       IN  IF SourceKept(rows[n]) THEN Append(before, row_source(rows[n]))
           ELSE before

\* batch_overlay with the overwrite turned into fill-if-empty (first row wins)
batch_overlay_first_wins(merged, r) ==
  LET set == {k \in DOMAIN r : k # "sources" /\ ~_is_missing(r[k])}
  IN  [k \in DOMAIN merged \cup set |->
         IF k \in DOMAIN merged THEN merged[k] ELSE r[k]]

\* merged after the inner loop over r.items()
batch_overlay(merged, r) ==
  LET set == {k \in DOMAIN r : k # "sources" /\ ~_is_missing(r[k])}
  IN  [k \in DOMAIN merged \cup set |-> IF k \in set THEN r[k] ELSE merged[k]]

RECURSIVE batch_fold(_, _)
batch_fold(rows, n) ==
  IF n = 0 THEN EmptyRow ELSE batch_overlay(batch_fold(rows, n - 1), rows[n])

merge_records_by_part_number(rows) ==
  LET merged  == batch_fold(rows, Len(rows))
      sources == batch_sources(rows, Len(rows))
      text    == Str(json_dumps(_clean_for_json(List(sources))))
  IN  Return([k \in DOMAIN merged \cup {"sources"} |->
                IF k = "sources" THEN text ELSE merged[k]])

(* ---------------------------------------------------------------------- *)
(* merge_logic.py, Stage 2: merge_db_with_user                             *)
(* ---------------------------------------------------------------------- *)
DB_COLUMNS ==
  << "part_number", "updated_at", "stock_qty", "vendor_code", "abc_class",
     "commodity_code", "utilization_score", "material_group", "risk_rating",
     "cost", "purchase_uom", "notes", "description_clean", "drawing_no",
     "is_standard_part", "order_uom", "spec_grade", "spec_finish", "material",
     "dimensions", "last_modified", "description", "category_master",
     "analysis_comment", "created_date", "plant", "currency", "flag",
     "checkout_status", "remarks", "approval_status", "revision_no",
     "material_type", "avg_lead_time_days", "spec_weight", "no", "cad_type",
     "storage_location", "quantity", "criticality_index", "category_raw",
     "engineer_name", "active_flag", "file_size_mb", "valuation_type",
     "spec_tolerance", "movement_frequency", "order_date", "delivery_date",
     "pdf_page", "date", "due_date", "file_name", "sources",
     "lifecycle_state", "vendor_name", "cad_file", "source_system",
     "source_file" >>

\* _parse_sources_json without the isinstance(val, list) branch: a decoded
\* list is kept as one entry
_parse_sources_json_wrapped(s) ==
  IF _is_missing(s) THEN <<>>
  ELSE IF isinstance(s, "list")
  THEN [i \in 1..Len(s.v) |-> _clean_for_json(s.v[i])]
  ELSE IF isinstance(s, "str")
  THEN LET val == json_loads(s.v)
       IN  IF ~val.ok THEN << Dict(<< <<k_raw, s>> >>) >>
           ELSE << _clean_for_json(val.val) >>
  ELSE << _clean_for_json(s) >>

\* _parse_sources_json without the branch for an already structured list
_parse_sources_json_no_list(s) ==
  IF _is_missing(s) THEN <<>>
  ELSE IF isinstance(s, "str")
  THEN LET val == json_loads(s.v)
       IN  IF ~val.ok THEN << Dict(<< <<k_raw, s>> >>) >>
           ELSE IF isinstance(val.val, "list")
           THEN [i \in 1..Len(val.val.v) |-> _clean_for_json(val.val.v[i])]
           ELSE << _clean_for_json(val.val) >>
  ELSE << _clean_for_json(s) >>

\* _parse_sources_json that drops a string json.loads rejects
_parse_sources_json_drop_raw(s) ==
  IF _is_missing(s) THEN <<>>
  ELSE IF isinstance(s, "list")
  THEN [i \in 1..Len(s.v) |-> _clean_for_json(s.v[i])]
  ELSE IF isinstance(s, "str")
  THEN LET val == json_loads(s.v)
       IN  IF ~val.ok THEN <<>>
           ELSE IF isinstance(val.val, "list")
           THEN [i \in 1..Len(val.val.v) |-> _clean_for_json(val.val.v[i])]
           ELSE << _clean_for_json(val.val) >>
  ELSE << _clean_for_json(s) >>

\* the list returned for the stored sources value s
_parse_sources_json(s) ==
  IF _is_missing(s) THEN <<>>
  ELSE IF isinstance(s, "list")
  THEN [i \in 1..Len(s.v) |-> _clean_for_json(s.v[i])]
  ELSE IF isinstance(s, "str")
  THEN LET val == json_loads(s.v)
       IN  IF ~val.ok THEN << Dict(<< <<k_raw, s>> >>) >>
           ELSE IF isinstance(val.val, "list")
           THEN [i \in 1..Len(val.val.v) |-> _clean_for_json(val.val.v[i])]
           ELSE << _clean_for_json(val.val) >>
  ELSE << _clean_for_json(s) >>

\* db_row or {}
db_or_empty(db_row) ==
  IF db_row = None \/ DOMAIN db_row = {} THEN EmptyRow ELSE db_row

\* overlay_row without the _is_missing test
overlay_row_unguarded(merged, r) ==
  [col \in DOMAIN merged |->
     IF col \in DOMAIN r THEN r[col] ELSE merged[col]]

\* one pass "for col in DB_COLUMNS: if col in r and not _is_missing(r[col])"
overlay_row(merged, r) ==
  [col \in DOMAIN merged |->
     IF col \in DOMAIN r /\ ~_is_missing(r[col]) THEN r[col] ELSE merged[col]]

RECURSIVE overlay_user_rows(_, _, _)
overlay_user_rows(merged, user_rows, n) ==
  IF n = 0 THEN merged
  ELSE overlay_row(overlay_user_rows(merged, user_rows, n - 1), user_rows[n])

\* the entry appended for user row r
user_source(r) ==
  Dict(<< <<k_source_system,
            _safe_str(GetOr(r, "source_system", Str(s_user_upload)))>>,
          <<k_source_file, _safe_str(Get(r, "source_file"))>> >>)

merge_db_with_user(db_row, user_rows) ==
  LET empty  == [col \in Range(DB_COLUMNS) |-> None]
      base   == overlay_row(empty, db_or_empty(db_row))
      merged == overlay_user_rows(base, user_rows, Len(user_rows))
  IN  IF user_rows = <<>> THEN Raise("IndexError")
      ELSE
        LET pn == py_or(Get(user_rows[Len(user_rows)], "part_number"),
                        Get(db_or_empty(db_row), "part_number"))
            base_sources ==
              _parse_sources_json(Get(db_or_empty(db_row), "sources"))
              \o [i \in 1..Len(user_rows) |-> user_source(user_rows[i])]
            text == Str(json_dumps(_clean_for_json(List(base_sources))))
        IN  Return([col \in DOMAIN merged |->
                      CASE col = "part_number" -> _safe_str(pn)
                        [] col = "sources"     -> text
                        [] OTHER               -> merged[col]])

(* ---------------------------------------------------------------------- *)
(* user_stage2.py: merge_db_and_user                                       *)
(* ---------------------------------------------------------------------- *)
\* v not in [None, "", "nan", "NaN"]
NotBlank(x) ==
  x \notin {None, Str(<<>>), Str(<<"n","a","n">>), Str(<<"N","a","N">>)}

\* one pass "for k, v in u.items()"
enrich_overlay(base, u) ==
  LET set == {k \in DOMAIN u : NotBlank(u[k])}
  IN  [k \in DOMAIN base \cup set |-> IF k \in set THEN u[k] ELSE base[k]]

RECURSIVE enrich_fold(_, _, _)
enrich_fold(base, user_rows, n) ==
  IF n = 0 THEN base
  ELSE enrich_overlay(enrich_fold(base, user_rows, n - 1), user_rows[n])

\* old_sources before the user entries are appended; a TypeError or a
\* JSONDecodeError of json.loads is swallowed by the bare except
old_sources_of(base) ==
  IF "sources" \in DOMAIN base /\ Truthy(base["sources"])
  THEN IF ~isinstance(base["sources"], "str") THEN <<>>
       ELSE LET val == json_loads(base["sources"].v)
            IN  IF val.ok /\ isinstance(val.val, "list") THEN val.val.v
                ELSE <<>>
  ELSE <<>>

enrich_source(u) ==
  Dict(<< <<k_source, Str(s_user)>>,
          <<k_file, Get(u, "source_file")>>,
          <<k_description, Get(u, "description")>> >>)

merge_db_and_user(db_row, user_rows) ==
  LET start == IF db_row = None THEN EmptyRow ELSE db_row
      base  == enrich_fold(start, user_rows, Len(user_rows))
      old_sources ==
        old_sources_of(base)
        \o [i \in 1..Len(user_rows) |-> enrich_source(user_rows[i])]
      text  == Str(json_dumps(List(old_sources)))
  IN  Return([k \in DOMAIN base \cup {"sources"} |->
                IF k = "sources" THEN text ELSE base[k]])

(* ---------------------------------------------------------------------- *)
(* State                                                                   *)
(* ---------------------------------------------------------------------- *)
VARIABLES
  db_row,      \* the prior stored record handed to a merge, or None
  user_rows,   \* the rows handed to a merge, in input order
  called,      \* the function that ran last, "" before any call
  outcome,     \* what the call returned or raised
  PartMaster,  \* the rows of table part_master (taxonomy_ui.models.PartMaster)
  snapshot,    \* the rows of output/stage1_master_snapshot.xlsx, None if absent
  uploads,     \* the number of web uploads handled so far
  produced,    \* history: per part number, the provenance entries that web
               \* uploads have produced for it so far
  arg_fieldname, \* the canonical field name handed to resolve_field
  arg_rows,    \* the raw rows of one part number handed to mapping_engine
  arg_df,      \* the DataFrame handed to a function of cleansing.py
  arg_name,    \* the column name handed to _normalize_name
  work         \* the merge loop of a Stage-2 run: per group its stage and
               \* the db_row read for it; <<>> outside the loop

vars == <<db_row, user_rows, called, outcome,
          PartMaster, snapshot, uploads, produced,
          arg_fieldname, arg_rows, arg_df, arg_name, work>>
web_vars == <<PartMaster, snapshot, uploads, produced, work>>
merge_vars == <<db_row, user_rows>>
map_vars == <<arg_fieldname, arg_rows>>
clean_vars == <<arg_df, arg_name>>

\* a DataFrame is its columns in order, each a label and one cell per row
DataFrame(columns, index) == [columns |-> columns, index |-> index]
NoFrame == DataFrame(<<>>, 0)

(* ---------------------------------------------------------------------- *)
(* Inputs                                                                  *)
(* ---------------------------------------------------------------------- *)
MaxUserRows == 2

pnA   == Str(<<"A","1">>)
pnB   == Str(<<"B","2">>)
PartNumbers == {pnA, pnB}
v_Cu  == Str(<<"C","u">>)
v_Zn  == Str(<<"Z","n">>)
v_Fe  == Str(<<"F","e">>)
v_R7  == Str(<<"R","7">>)
v_S9  == Str(<<"S","9">>)
v_foo == Str(<<"f","o","o">>)
f_a   == Str(<<"a",".","c","s","v">>)
f_b   == Str(<<"b",".","c","s","v">>)
v_sap == Str(<<"s","a","p">>)

\* one value of each kind that _is_missing treats as missing
MissingVals ==
  { None, FloatNaN, Str(<<>>), Str(<<" ">>), Str(<<"N","a","N">>),
    Str(<<"N","u","l","l">>) }

\* a row with the given keys; k :> x is the one-key row
Row1(k, x)         == k :> x
Row2(k1, x1, k2, x2) == (k1 :> x1) @@ (k2 :> x2)

SeqsUpTo(S, n) == UNION {[1..m -> S] : m \in 0..n}

\* field values: "material" is a schema column, "bin_loc" is not
FieldDbRows ==
  { None, EmptyRow }
  \cup { Row1("part_number", pnA) @@ m @@ b :
           m \in { EmptyRow, Row1("material", v_Cu),
                   Row1("material", Str(<<"n","u","l","l">>)) },
           b \in { EmptyRow, Row1("bin_loc", v_R7) } }

FieldUserRows ==
  { Row2("part_number", pnA, "material", x) :
      x \in {v_Zn, v_Fe} \cup MissingVals }
  \cup { Row2("part_number", pnA, "bin_loc", v_S9),
         Row1("part_number", pnA) }

\* identifiers
IdentDbRows ==
  { None, Row1("part_number", pnA), Row1("material", v_Cu),
    Row1("part_number", Str(<<"n","a","n">>)) }

IdentUserRows ==
  { Row1("part_number", x) :
      x \in { pnB, None, Str(<<"n","a","n">>), Str(<<" ">>),
              PyInt(<<"7">>), PyInt(<<"0">>) } }
  \cup { Row1("material", v_Zn) }

\* provenance
entry_sap == Dict(<< <<k_source_system, v_sap>>, <<k_source_file, f_a>> >>)
entry_bi  ==
  Dict(<< <<k_source_system, Str(<<"b","i">>)>>, <<k_source_file, None>> >>)

SourcesForms ==
  { None,                                       \* missing
    Str(<<"n","a","n">>),                       \* missing sentinel
    List(<<>>),                                 \* structured lists
    List(<<entry_sap, entry_bi>>),
    Str(<<"[","]">>),                           \* JSON strings of a list
    Str(json_dumps(List(<<entry_sap>>))),
    Str(json_dumps(List(<<entry_bi, entry_sap>>))),
    Str(json_dumps(entry_sap)),                 \* JSON strings of a non-list
    Str(<<"7">>),
    Str(<<"s","a","p",".","c","s","v">>),       \* not valid JSON
    Str(<<"[","{","\"","r","a","w","\"">>) }

SourcesDbRows ==
  { Row1("part_number", pnA) } 
  \cup { Row2("part_number", pnA, "sources", s) : s \in SourcesForms }

SourcesUserRows ==
  { Row1("part_number", pnA) @@ Row2("source_system", Str(s_user),
                                     "source_file", f_a),
    Row1("part_number", pnA) @@ Row2("source_file", f_b,
                                     "description", v_foo),
    Row1("part_number", pnA),
    Row1("part_number", pnA) @@ Row2("source_system", None,
                                     "source_file", Str(<<"n","a","n">>)),
    Row1("part_number", pnA) @@ Row2("source_system", Str(<<" ">>),
                                     "material", v_Fe),
    Row2("part_number", pnA, "sources", Str(json_dumps(List(<<entry_bi>>)))) }

Scenarios ==
  { [db |-> FieldDbRows,   rows |-> FieldUserRows],
    [db |-> IdentDbRows,   rows |-> IdentUserRows],
    [db |-> SourcesDbRows, rows |-> SourcesUserRows] }

(* ---------------------------------------------------------------------- *)
(* Calls of the three merge functions                                      *)
(* ---------------------------------------------------------------------- *)
Init ==
  /\ \E sc \in Scenarios :
       /\ db_row \in sc.db
       /\ user_rows \in SeqsUpTo(sc.rows, MaxUserRows)
  /\ called = ""
  /\ outcome = Return(None)
  /\ PartMaster = {}
  /\ snapshot = [exists |-> FALSE, rows |-> <<>>]
  /\ uploads = 0
  /\ work = <<>>
  /\ produced = [pn \in PartNumbers |-> {}]
  /\ arg_fieldname = ""
  /\ arg_rows = <<>>
  /\ arg_df = NoFrame
  /\ arg_name = <<>>

(* The merges update two kinds of objects in place: the accumulator dict    *)
(* (merged, base) and the provenance list (sources, base_sources,          *)
(* old_sources).  The rows and the prior record are only read; a call       *)
(* changes one of them only if an object it updates is that input itself.  *)

\* _parse_sources_json handing a structured list back as it is
own_base_sources_unless_list(s) == ~isinstance(s, "list")

\* whether base_sources, the list _parse_sources_json hands back for s, is
\* a list of its own: every branch builds one ([], a comprehension over s or
\* over the decoded value, a one-entry literal)
own_base_sources(s) == TRUE

\* db_row after merge_db_with_user: base_sources.append() reaches
\* db_row["sources"] only when base_sources is that list
db_row_after_merge_db_with_user(db, rows) ==
  LET s == Get(db_or_empty(db), "sources")
  IN  IF own_base_sources(s) \/ rows = <<>> THEN db
      ELSE [db EXCEPT !["sources"] =
              List(s.v \o [i \in 1..Len(rows) |-> user_source(rows[i])])]

\* whether base of merge_db_and_user is a dict of its own: {} or
\* db_row.copy()
own_base(db) == TRUE

\* db_row after merge_db_and_user: base[k] = v and base["sources"] = ...
\* reach db_row only when base is db_row
db_row_after_merge_db_and_user(db, rows) ==
  IF own_base(db) THEN db ELSE merge_db_and_user(db, rows).ret

CallMergeRecordsByPartNumber ==
  /\ called = ""
  /\ called' = "merge_records_by_part_number"
  /\ outcome' = merge_records_by_part_number(user_rows)
  /\ UNCHANGED <<db_row, user_rows>>
  /\ UNCHANGED <<map_vars, clean_vars>>
  /\ UNCHANGED web_vars

CallMergeDbWithUser ==
  /\ called = ""
  /\ called' = "merge_db_with_user"
  /\ outcome' = merge_db_with_user(db_row, user_rows)
  /\ db_row' = db_row_after_merge_db_with_user(db_row, user_rows)
  /\ UNCHANGED user_rows
  /\ UNCHANGED <<map_vars, clean_vars>>
  /\ UNCHANGED web_vars

CallMergeDbAndUser ==
  /\ called = ""
  /\ called' = "merge_db_and_user"
  /\ outcome' = merge_db_and_user(db_row, user_rows)
  /\ db_row' = db_row_after_merge_db_and_user(db_row, user_rows)
  /\ UNCHANGED user_rows
  /\ UNCHANGED <<map_vars, clean_vars>>
  /\ UNCHANGED web_vars

Next ==
  \/ CallMergeRecordsByPartNumber
  \/ CallMergeDbWithUser
  \/ CallMergeDbAndUser

Spec == Init /\ [][Next]_vars

(* ---------------------------------------------------------------------- *)
(* taxonomy_ui/stage2_adapter.py: run_stage2_from_django, from the cleaned *)
(* and enriched batch df_clean on.  A PartMaster row is a function over    *)
(* REQUIRED_COLS (id and updated_at are never read or set by this code).   *)
(* ---------------------------------------------------------------------- *)
MaxUploadRows == 2
MaxUploads == 2

REQUIRED_COLS ==
  << "part_number", "dimensions", "description", "cost", "material",
     "vendor_name", "currency", "category_raw", "category_master",
     "source_system", "source_file" >>

\* a row of df_clean of a file named fname: every cell is null or a trimmed
\* string, and the file's rows are tagged source_system = "user"
CleanRow(pn, mat, fname) ==
  [c \in Range(REQUIRED_COLS) |->
     CASE c = "part_number"   -> pn
       [] c = "material"      -> mat
       [] c = "source_system" -> Str(s_user)
       [] c = "source_file"   -> fname
       [] OTHER               -> None]

CleanCells ==
  { [pn |-> pnA, mat |-> v_Zn], [pn |-> pnA, mat |-> v_Cu],
    [pn |-> pnB, mat |-> None], [pn |-> None, mat |-> v_Zn] }

UploadBatches ==
  { [i \in 1..Len(cells) |-> CleanRow(cells[i].pn, cells[i].mat, fname)] :
      cells \in SeqsUpTo(CleanCells, MaxUploadRows) \ {<<>>},
      fname \in {f_a, f_b} }

NoSnapshot == [exists |-> FALSE, rows |-> <<>>]

\* pandas notna()
notna(x) == x # None /\ x # FloatNaN

\* with_part_number without the notna() filter
with_part_number_unfiltered(records) ==
  [i \in 1..Len(records) |->
     [records[i] EXCEPT !["part_number"] = Str(str_strip(py_str(@)))]]

\* rows with a part_number, the part_number cast to str and stripped
with_part_number(records) ==
  LET kept == SelectSeq(records, LAMBDA r : notna(r["part_number"]))
  IN  [i \in 1..Len(kept) |->
         [kept[i] EXCEPT !["part_number"] = Str(str_strip(py_str(@)))]]

\* the keys of grouped, in insertion order, after records[1..n]
RECURSIVE group_keys(_, _)
group_keys(records, n) ==
  IF n = 0 THEN <<>>
  ELSE LET before == group_keys(records, n - 1)
           pn == Get(records[n], "part_number")
       IN  IF Truthy(pn) /\ ~\E i \in 1..Len(before) : before[i] = pn
           THEN Append(before, pn)
           ELSE before

\* grouped[pn] = [r] in place of grouped[pn].append(r)
group_rows_last_only(records, pn) ==
  LET rows == SelectSeq(records, LAMBDA r : Get(r, "part_number") = pn)
  IN  IF rows = <<>> THEN <<>> ELSE << rows[Len(rows)] >>

\* grouped[pn]
group_rows(records, pn) ==
  SelectSeq(records, LAMBDA r : Get(r, "part_number") = pn)

\* the columns of table part_master the model follows: the fields of the
\* PartMaster model and the sources column of the full schema
TABLE_COLS == Range(REQUIRED_COLS) \cup {"sources"}

\* the db_row built from PartMaster.objects.filter(part_number=pn).first()
db_row_of(table, pn) ==
  IF \E o \in table : o["part_number"] = pn
  THEN LET db_obj == CHOOSE o \in table : o["part_number"] = pn
       IN  [c \in Range(REQUIRED_COLS) |-> db_obj[c]]
  ELSE None

\* merged_results
merge_groups(table, records) ==
  LET keys == group_keys(records, Len(records))
  IN  [i \in 1..Len(keys) |->
         merge_db_with_user(db_row_of(table, keys[i]),
                            group_rows(records, keys[i])).ret]

normalize_columns(rows) ==
  [i \in 1..Len(rows) |->
     [c \in DOMAIN rows[i] \cup Range(REQUIRED_COLS) |->
        IF c \in DOMAIN rows[i] THEN rows[i][c] ELSE None]]

\* PartMaster.objects.update_or_create(part_number=pn, defaults={...})
\* (an existing row keeps the columns the defaults do not name; a created
\* row has them null)
update_or_create(table, row) ==
  LET pn  == Get(row, "part_number")
      obj == [c \in Range(REQUIRED_COLS) |-> Get(row, c)]
  IN  IF ~Truthy(pn) THEN table
      ELSE IF \E o \in table : o["part_number"] = pn
      THEN {IF o["part_number"] = pn THEN obj @@ o ELSE o : o \in table}
      ELSE table \cup {obj @@ [c \in TABLE_COLS |-> None]}

RECURSIVE upsert_rows(_, _, _)
upsert_rows(table, rows, n) ==
  IF n = 0 THEN table
  ELSE update_or_create(upsert_rows(table, rows, n - 1), rows[n])

\* the entries this upload produces for part number pn
upload_entries(records, pn) ==
  {user_source(records[i]) :
     i \in {j \in 1..Len(records) : records[j]["part_number"] = pn}}

(* ---------------------------------------------------------------------- *)
(* db.py and user_stage2.py: run_stage2, from the cleaned and enriched     *)
(* rows df_clean on.  Table part_master is unique on part_number; its id   *)
(* and updated_at columns are never set from Python and are left out.      *)
(* ---------------------------------------------------------------------- *)
_sanitize_value(v) ==
  IF v = None THEN None
  ELSE IF v = FloatNaN THEN None
  ELSE LET s == str_strip(py_str(v))
       IN  IF s = <<>>
              \/ str_lower(s) \in { <<"n","a","n">>, <<"n","o","n","e">>,
                                    <<"n","u","l","l">> }
           THEN None
           ELSE Str(s)

fetch_part_by_number(table, part_number) ==
  IF ~Truthy(part_number) THEN None
  ELSE IF \E o \in table : o["part_number"] = part_number
  THEN CHOOSE o \in table : o["part_number"] = part_number
  ELSE None

\* INSERT ... ON CONFLICT (part_number) DO UPDATE of the rows of values, one
\* after the other
RECURSIVE execute_values(_, _, _)
execute_values(table, values, n) ==
  IF n = 0 THEN table
  ELSE LET before == execute_values(table, values, n - 1)
           pn     == values[n]["part_number"]
       IN  IF \E o \in before : o["part_number"] = pn
           THEN {IF o["part_number"] = pn THEN values[n] @@ o ELSE o :
                   o \in before}
           ELSE before \cup {values[n] @@ [c \in TABLE_COLS |-> None]}

\* the table after the call, or the error that rolls the transaction back: a
\* null part_number breaks NOT NULL, and one statement may not touch the same
\* part_number twice
upsert_part_master(table, records) ==
  IF records = <<>> THEN Return(table)
  ELSE
    LET all_keys  == UNION {DOMAIN records[i] : i \in 1..Len(records)}
        used_cols == all_keys \ {"id", "updated_at"}
        kept      == SelectSeq(records,
                               LAMBDA r : Truthy(Get(r, "part_number")))
        values    == [i \in 1..Len(kept) |->
                        [c \in used_cols |-> _sanitize_value(Get(kept[i], c))]]
    IN  IF "part_number" \notin all_keys THEN Raise("ValueError")
        ELSE IF \E i \in 1..Len(values) : values[i]["part_number"] = None
        THEN Raise("IntegrityError")
        ELSE IF \E i, j \in 1..Len(values) :
                  i # j /\ values[i]["part_number"] = values[j]["part_number"]
        THEN Raise("CardinalityViolation")
        ELSE Return(execute_values(table, values, Len(values)))

\* pn = str(row.get("part_number")).strip()
stage2_pn(row) == Str(str_strip(py_str(Get(row, "part_number"))))

\* the keys of groups, in insertion order, after user_records[1..n]
RECURSIVE stage2_group_keys(_, _)
stage2_group_keys(user_records, n) ==
  IF n = 0 THEN <<>>
  ELSE LET before == stage2_group_keys(user_records, n - 1)
           pn == stage2_pn(user_records[n])
       IN  IF Truthy(pn) /\ ~\E i \in 1..Len(before) : before[i] = pn
           THEN Append(before, pn)
           ELSE before

\* groups[pn]
stage2_group_rows(user_records, pn) ==
  SelectSeq(user_records, LAMBDA r : stage2_pn(r) = pn)

\* merged_results
stage2_merge_groups(table, user_records) ==
  LET keys == stage2_group_keys(user_records, Len(user_records))
  IN  [i \in 1..Len(keys) |->
         merge_db_and_user(fetch_part_by_number(table, keys[i]),
                           stage2_group_rows(user_records, keys[i])).ret]

digit_value(c) ==
  CHOOSE n \in 0..9 : <<"0","1","2","3","4","5","6","7","8","9">>[n + 1] = c

RECURSIVE digits_int(_, _)
digits_int(ds, n) ==
  IF n = 0 THEN 0 ELSE 10 * digits_int(ds, n - 1) + digit_value(ds[n])

\* x.str.extract(r'(\d+)', expand=False).fillna(0).astype(int) of one text
extract_int(s) ==
  LET at == {i \in 1..Len(s) : s[i] \in Digits}
  IN  IF at = {} THEN 0
      ELSE LET a == SetMin(at)
               b == SetMax({j \in a..Len(s) :
                              \A k \in a..j : s[k] \in Digits})
           IN  digits_int(SubSeq(s, a, b), b - a + 1)

\* the orders df_out may have after the sort on the number in part_number
\* (the sort is not stable: rows with equal numbers may come out either way)
sort_values(rows) ==
  LET key(r) == extract_int(py_str(Get(r, "part_number")))
  IN  { [i \in 1..Len(rows) |-> rows[p[i]]] :
          p \in { q \in Permutations(1..Len(rows)) :
                    \A i, j \in 1..Len(rows) :
                      i < j => key(rows[q[i]]) <= key(rows[q[j]]) } }

(* ---------------------------------------------------------------------- *)
(* background_stage1.py: load_part_master_from_snapshot                    *)
(* ---------------------------------------------------------------------- *)
\* text cells pandas reads back as NaN
NA_WORDS ==
  { <<>>, <<"n","a","n">>, <<"N","a","N">>, <<"N","A">>, <<"N","/","A">>,
    <<"n","/","a">>, <<"N","U","L","L">>, <<"n","u","l","l">>,
    <<"N","o","n","e">>, <<"<","N","A",">">>, <<"#","N","/","A">> }

\* pd.read_excel of the file df_merged.to_excel wrote, the columns the loader
\* reads: an empty cell and an NA word come back as NaN
read_excel(rows) ==
  [i \in 1..Len(rows) |->
     [c \in Range(REQUIRED_COLS) |->
        LET val == Get(rows[i], c)
        IN  IF val = None \/ val = FloatNaN THEN FloatNaN
            ELSE IF isinstance(val, "str") /\ val.v \in NA_WORDS
            THEN FloatNaN
            ELSE val]]

safe_val(val) == IF val = None \/ val = FloatNaN THEN None ELSE val

\* the PartMaster object built from one snapshot row
snapshot_object(row) ==
  [c \in TABLE_COLS |->
     CASE c = "part_number" ->
            Str(str_strip(py_str(py_or(safe_val(row[c]), Str(<<>>)))))
       [] c = "cost" ->
            IF Truthy(safe_val(row[c])) THEN Str(py_str(safe_val(row[c])))
            ELSE None
       [] c = "sources" -> None
       [] OTHER -> safe_val(row[c])]

\* One upload.  snapshot_ok and db_ok say whether writing the Excel file and
\* committing the upsert transaction succeed; both failures are caught and
\* the preview is returned all the same.  arg_rows keeps df_clean, the rows
\* the upload was run on.
RunStage2FromDjango(records, snapshot_ok, db_ok) ==
  /\ uploads < MaxUploads
  /\ uploads' = uploads + 1
  /\ called' = "run_stage2_from_django"
  /\ arg_rows' = records
  /\ \E rows \in {with_part_number(records)} :
     \E df_merged \in {normalize_columns(merge_groups(PartMaster, rows))} :
       IF rows = <<>> \/ df_merged = <<>>
       THEN /\ outcome' = Raise("ValueError")
            /\ UNCHANGED <<PartMaster, snapshot, produced>>
       ELSE /\ outcome' = Return(df_merged)
            /\ snapshot' = IF snapshot_ok
                           THEN [exists |-> TRUE, rows |-> df_merged]
                           ELSE snapshot
            /\ PartMaster' = IF db_ok
                             THEN upsert_rows(PartMaster, df_merged,
                                              Len(df_merged))
                             ELSE PartMaster
            /\ produced' = [pn \in PartNumbers |->
                              produced[pn] \cup upload_entries(rows, pn)]
  /\ UNCHANGED <<db_row, user_rows>>
  /\ UNCHANGED <<arg_fieldname, clean_vars, work>>

\* One run of the command-line Stage 2 on the rows df_clean.  It returns
\* nothing; outcome holds df_out, the rows it writes to
\* user_stage2_output.xlsx, and the KeyError of sorting a frame without
\* columns when no row has a part number.
RunStage2(records) ==
  /\ uploads < MaxUploads
  /\ uploads' = uploads + 1
  /\ called' = "run_stage2"
  /\ arg_rows' = records
  /\ \E user_records \in
          {SelectSeq(records, LAMBDA r : notna(Get(r, "part_number")))} :
     \E merged_results \in {stage2_merge_groups(PartMaster, user_records)} :
     \E upserted \in {upsert_part_master(PartMaster, merged_results)} :
       IF upserted.exc # "none"
       THEN /\ outcome' = Raise(upserted.exc)
            /\ UNCHANGED PartMaster
       ELSE /\ PartMaster' = upserted.ret
            /\ IF merged_results = <<>>
               THEN outcome' = Raise("KeyError")
               ELSE \E df_out \in sort_values(merged_results) :
                      outcome' = Return(df_out)
  /\ UNCHANGED <<snapshot, produced>>
  /\ UNCHANGED <<db_row, user_rows>>
  /\ UNCHANGED <<arg_fieldname, clean_vars, work>>

\* One Stage-1 refresh: the table is emptied and filled again from the
\* snapshot file, in one transaction.
LoadPartMasterFromSnapshot ==
  /\ called' = "load_part_master_from_snapshot"
  /\ \E df \in {read_excel(snapshot.rows)} :
     \E objects \in {[i \in 1..Len(df) |-> snapshot_object(df[i])]} :
       IF ~snapshot.exists \/ df = <<>>
       THEN /\ outcome' = Return(None)
            /\ UNCHANGED PartMaster
       ELSE IF \E i, j \in 1..Len(objects) :
                 i # j /\ objects[i]["part_number"] = objects[j]["part_number"]
       THEN /\ outcome' = Raise("IntegrityError")
            /\ UNCHANGED PartMaster
       ELSE /\ outcome' = Return(None)
            /\ PartMaster' = Range(objects)
  /\ UNCHANGED <<snapshot, uploads, produced>>
  /\ UNCHANGED <<db_row, user_rows>>
  /\ UNCHANGED <<map_vars, clean_vars, work>>

InitWeb ==
  /\ db_row = None
  /\ user_rows = <<>>
  /\ called = ""
  /\ outcome = Return(None)
  /\ PartMaster = {}
  /\ snapshot = NoSnapshot
  /\ uploads = 0
  /\ work = <<>>
  /\ produced = [pn \in PartNumbers |-> {}]
  /\ arg_fieldname = ""
  /\ arg_rows = <<>>
  /\ arg_df = NoFrame
  /\ arg_name = <<>>

NextWeb ==
  \/ \E records \in UploadBatches, snapshot_ok \in BOOLEAN, db_ok \in BOOLEAN :
       RunStage2FromDjango(records, snapshot_ok, db_ok)
  \/ \E records \in UploadBatches : RunStage2(records)
  \/ LoadPartMasterFromSnapshot

SpecWeb == InitWeb /\ [][NextWeb]_vars

(* ---------------------------------------------------------------------- *)
(* One Stage-2 run, web or command line, on a table earlier runs filled    *)
(* ---------------------------------------------------------------------- *)
\* the empty table, a table a web upload filled (sources null) and a table
\* a command-line run filled (sources a JSON text)
StoredTables ==
  { {},
    upsert_rows({}, normalize_columns(
                      merge_groups({}, << CleanRow(pnA, v_Fe, f_a) >>)), 1),
    upsert_part_master({}, stage2_merge_groups({},
                             << CleanRow(pnA, v_Fe, f_a),
                                CleanRow(pnB, v_R7, f_b) >>)).ret }

InitStage2 ==
  /\ db_row = None
  /\ user_rows = <<>>
  /\ called = ""
  /\ outcome = Return(None)
  /\ PartMaster \in StoredTables
  /\ snapshot = NoSnapshot
  /\ uploads = 0
  /\ work = <<>>
  /\ produced = [pn \in PartNumbers |-> {}]
  /\ arg_fieldname = ""
  /\ arg_rows = <<>>
  /\ arg_df = NoFrame
  /\ arg_name = <<>>

NextStage2 ==
  /\ uploads = 0
  /\ \/ \E records \in UploadBatches,
            snapshot_ok \in BOOLEAN, db_ok \in BOOLEAN :
          RunStage2FromDjango(records, snapshot_ok, db_ok)
     \/ \E records \in UploadBatches : RunStage2(records)

SpecStage2 == InitStage2 /\ [][NextStage2]_vars

(* ---------------------------------------------------------------------- *)
(* The merge loop of a Stage-2 run, one group at a time.  The loop of the  *)
(* code takes the groups in insertion order; here any group may be read    *)
(* and merged next, each group with a db_row of its own.                   *)
(* ---------------------------------------------------------------------- *)
\* the rows the loop groups: df_clean without the rows that lack a
\* part_number (trimmed on the web path)
loop_rows(fn, records) ==
  IF fn = "run_stage2_from_django" THEN with_part_number(records)
  ELSE SelectSeq(records, LAMBDA r : notna(Get(r, "part_number")))

\* the keys of grouped (groups)
loop_keys(fn, records) ==
  IF fn = "run_stage2_from_django"
  THEN Range(group_keys(loop_rows(fn, records), Len(loop_rows(fn, records))))
  ELSE Range(stage2_group_keys(loop_rows(fn, records),
                               Len(loop_rows(fn, records))))

\* a loop in which db_row is not set anew for each group: a group without a
\* stored row takes the db_row read for another group
read_db_row_kept(fn, loop, table, pn) ==
  LET mine == IF fn = "run_stage2_from_django" THEN db_row_of(table, pn)
              ELSE fetch_part_by_number(table, pn)
      read == {q \in DOMAIN loop : loop[q].db_row # None}
  IN  IF mine = None /\ read # {} THEN loop[CHOOSE q \in read : TRUE].db_row
      ELSE mine

\* the db_row read for group pn; what the loop holds for the other groups
\* has no part in it
read_db_row(fn, loop, table, pn) ==
  IF fn = "run_stage2_from_django" THEN db_row_of(table, pn)
  ELSE fetch_part_by_number(table, pn)

\* merged, for group pn
merge_one_group(fn, db, records, pn) ==
  IF fn = "run_stage2_from_django"
  THEN merge_db_with_user(db, group_rows(loop_rows(fn, records), pn)).ret
  ELSE merge_db_and_user(db, stage2_group_rows(loop_rows(fn, records), pn)).ret

InitGroups ==
  /\ called \in {"run_stage2_from_django", "run_stage2"}
  /\ arg_rows \in UploadBatches
  /\ loop_keys(called, arg_rows) # {}
  /\ work = [pn \in loop_keys(called, arg_rows) |->
               [stage |-> "grouped", db_row |-> None]]
  /\ outcome = Return(<<>>)
  /\ PartMaster \in StoredTables
  /\ db_row = None
  /\ user_rows = <<>>
  /\ snapshot = NoSnapshot
  /\ uploads = 0
  /\ produced = [pn \in PartNumbers |-> {}]
  /\ arg_fieldname = ""
  /\ arg_df = NoFrame
  /\ arg_name = <<>>

\* db_obj = ...first() and the db_row built from it; fetch_part_by_number
ReadGroup(pn) ==
  /\ work[pn].stage = "grouped"
  /\ work' = [work EXCEPT ![pn] =
                [stage |-> "read",
                 db_row |-> read_db_row(called, work, PartMaster, pn)]]
  /\ UNCHANGED <<called, outcome, arg_rows>>
  /\ UNCHANGED <<PartMaster, snapshot, uploads, produced>>
  /\ UNCHANGED <<merge_vars, arg_fieldname, clean_vars>>

\* merged = merge(db_row, user_rows); merged_results.append(merged)
MergeGroup(pn) ==
  /\ work[pn].stage = "read"
  /\ work' = [work EXCEPT ![pn].stage = "merged"]
  /\ outcome' = Return(Append(outcome.ret,
                   merge_one_group(called, work[pn].db_row, arg_rows, pn)))
  /\ UNCHANGED <<called, arg_rows>>
  /\ UNCHANGED <<PartMaster, snapshot, uploads, produced>>
  /\ UNCHANGED <<merge_vars, arg_fieldname, clean_vars>>

NextGroups ==
  \E pn \in DOMAIN work :
    \/ ReadGroup(pn)
    \/ MergeGroup(pn)

SpecGroups == InitGroups /\ [][NextGroups]_vars

(* ---------------------------------------------------------------------- *)
(* mapping_engine.py                                                       *)
(* ---------------------------------------------------------------------- *)
_val(v) ==
  IF v = None THEN None
  ELSE IF v = FloatNaN THEN None
  ELSE LET s == str_strip(py_str(v))
       IN  IF s = <<>>
              \/ str_lower(s) \in { <<"n","a","n">>, <<"n","u","l","l">>,
                                    <<"n","o","n","e">> }
           THEN None
           ELSE Str(s)

\* source systems, later = higher priority
PRIORITY ==
  << <<"p","o","w","e","r","b","i">>, <<"v","a","u","l","t">>,
     <<"s","a","p">>, <<"p","o","s">>, <<"i","n","v","o","i","c","e","s">>,
     <<"u","s","e","r","_","u","p","l","o","a","d">> >>

s_unknown == <<"u","n","k","n","o","w","n">>

\* canonical field -> the raw column names that may carry it
FIELD_MAP ==
  ("description" :>
     << "description", "sap_description_raw", "sap_description_clean",
        "vault_description", "powerbi_description",
        "invoice_description_raw", "po_description_raw", "description_raw",
        "user_description" >>) @@
  ("material" :>
     << "material", "sap_material", "sap_spec_material", "vault_material",
        "powerbi_material", "spec_material", "user_material" >>) @@
  ("dimensions" :>
     << "dimensions", "sap_spec_dimensions", "vault_dimensions",
        "user_dimensions" >>) @@
  ("category_raw" :>
     << "category_raw", "sap_category", "powerbi_category",
        "vault_category", "sub_category", "user_category" >>) @@
  ("cost" :>
     << "cost", "sap_price_per_uom", "price_per_unom",
        "invoice_unit_price", "po_price_per_unit" >>) @@
  ("currency" :>
     << "currency", "sap_currency", "invoice_currency", "po_currency" >>) @@
  ("vendor_name" :>
     << "vendor_name", "sap_vendor_name", "invoice_vendor_name",
        "po_vendor_name" >>)

\* the first non-missing value row r carries under one of keys, None if none
first_in_row(keys, r) ==
  LET hits == {i \in 1..Len(keys) : _val(Get(r, keys[i])) # None}
  IN  IF hits = {} THEN None ELSE _val(Get(r, keys[SetMin(hits)]))

\* first_in_rows scanning key by key, the rows under each key
first_in_rows_key_major(keys, rs) ==
  LET hits == {k \in 1..Len(keys) :
                 \E i \in 1..Len(rs) : _val(Get(rs[i], keys[k])) # None}
  IN  IF hits = {} THEN None
      ELSE LET k == keys[SetMin(hits)]
           IN  _val(Get(rs[SetMin({i \in 1..Len(rs) :
                                      _val(Get(rs[i], k)) # None})], k))

\* the first non-missing value found scanning rs row by row, None if none
first_in_rows(keys, rs) ==
  LET hits == {i \in 1..Len(rs) : first_in_row(keys, rs[i]) # None}
  IN  IF hits = {} THEN None ELSE first_in_row(keys, rs[SetMin(hits)])

rows_of_system(rows, src) ==
  SelectSeq(rows, LAMBDA r : Get(r, "source_system") = Str(src))

\* resolve_field without the scan of all rows after the priority scan
resolve_field_no_fallback(fieldname, rows) ==
  IF fieldname \notin DOMAIN FIELD_MAP THEN Raise("KeyError")
  ELSE LET keys == FIELD_MAP[fieldname]
           tier(p) == first_in_rows(keys, rows_of_system(rows, PRIORITY[p]))
           supplying == {p \in 1..Len(PRIORITY) : tier(p) # None}
       IN  IF supplying # {} THEN Return(tier(SetMax(supplying)))
           ELSE Return(None)

\* resolve_field walking PRIORITY from its lowest system upwards
resolve_field_lowest_first(fieldname, rows) ==
  IF fieldname \notin DOMAIN FIELD_MAP THEN Raise("KeyError")
  ELSE LET keys == FIELD_MAP[fieldname]
           tier(p) == first_in_rows(keys, rows_of_system(rows, PRIORITY[p]))
           supplying == {p \in 1..Len(PRIORITY) : tier(p) # None}
       IN  IF supplying # {} THEN Return(tier(SetMin(supplying)))
           ELSE Return(first_in_rows(keys, rows))

resolve_field(fieldname, rows) ==
  IF fieldname \notin DOMAIN FIELD_MAP THEN Raise("KeyError")
  ELSE LET keys == FIELD_MAP[fieldname]
           tier(p) == first_in_rows(keys, rows_of_system(rows, PRIORITY[p]))
           supplying == {p \in 1..Len(PRIORITY) : tier(p) # None}
       IN  IF supplying # {} THEN Return(tier(SetMax(supplying)))
           ELSE Return(first_in_rows(keys, rows))

_clean_row_for_payload(row) ==
  LET kept == {k \in DOMAIN row : row[k] # None /\ row[k] # FloatNaN}
  IN  [k \in kept |-> row[k]]

\* the key of payload under which row r is filed
payload_system(r) ==
  py_str(py_or(GetOr(r, "source_system", Str(s_unknown)), Str(s_unknown)))

\* payload.keys() in insertion order after rows[1..n]
RECURSIVE payload_keys(_, _)
payload_keys(rows, n) ==
  IF n = 0 THEN <<>>
  ELSE LET before == payload_keys(rows, n - 1)
           sys == payload_system(rows[n])
       IN  IF DOMAIN _clean_row_for_payload(rows[n]) = {}
              \/ \E i \in 1..Len(before) : before[i] = sys
           THEN before
           ELSE Append(before, sys)

\* payload[sys]
payload_list(rows, sys) ==
  LET filed == SelectSeq(rows, LAMBDA r :
                 /\ payload_system(r) = sys
                 /\ DOMAIN _clean_row_for_payload(r) # {})
  IN  [i \in 1..Len(filed) |-> _clean_row_for_payload(filed[i])]

\* build_payload that files every row, cleaned to nothing or not
build_payload_keep_empty(rows) ==
  LET syss == {payload_system(rows[i]) : i \in 1..Len(rows)}
  IN  [sys \in syss |->
         LET filed == SelectSeq(rows, LAMBDA r : payload_system(r) = sys)
         IN  [i \in 1..Len(filed) |-> _clean_row_for_payload(filed[i])]]

\* the payload dict, as a function from its keys to their lists
build_payload(rows) ==
  [sys \in Range(payload_keys(rows, Len(rows))) |-> payload_list(rows, sys)]

\* best_row always taking the first row
best_row_first(rows) == 0

\* the first row of the highest-priority system present, 0 if none of the
\* rows belongs to a system of PRIORITY
best_row(rows) ==
  LET present == {p \in 1..Len(PRIORITY) :
                    rows_of_system(rows, PRIORITY[p]) # <<>>}
  IN  IF present = {} THEN 0
      ELSE SetMin({i \in 1..Len(rows) :
             Get(rows[i], "source_system") = Str(PRIORITY[SetMax(present)])})

map_group_to_master(part_number, rows) ==
  LET best == best_row(rows)
      src  == IF best # 0 THEN rows[best]
              ELSE IF rows # <<>> THEN rows[1]
              ELSE EmptyRow
      resolved == [f \in DOMAIN FIELD_MAP |-> resolve_field(f, rows).ret]
  IN  Return(
        resolved @@
        [k \in {"part_number", "category_master", "source_system",
                "source_file", "source_payload"} |->
           CASE k = "part_number"     -> part_number
             [] k = "category_master" -> None
             [] k = "source_system"   -> Get(src, "source_system")
             [] k = "source_file"     -> Get(src, "source_file")
             [] k = "source_payload"  -> build_payload(rows)])

(* ---------------------------------------------------------------------- *)
(* Calls of the functions of mapping_engine.py                             *)
(* ---------------------------------------------------------------------- *)
MaxMapRows == 2

sys_vault  == Str(PRIORITY[2])
sys_sap    == Str(PRIORITY[3])
sys_upload == Str(PRIORITY[6])

\* raw rows of one part number: rows of systems of PRIORITY and of none,
\* values under the canonical name and under an alias, missing values
MapRows ==
  { Row2("source_system", sys_sap, "source_file", f_a)
      @@ Row1("material", v_Zn),
    Row2("source_system", sys_sap, "source_file", f_b)
      @@ Row2("material", Str(<<"n","a","n">>), "sap_material", v_Fe),
    Row2("source_system", sys_sap, "source_file", f_a)
      @@ Row2("material", v_R7, "sap_material", v_Fe),
    Row2("source_system", sys_vault, "source_file", f_a)
      @@ Row1("material", Str(<<" ","C","u"," ">>)),
    Row2("source_system", sys_vault, "source_file", f_b)
      @@ Row1("material", None),
    Row2("source_system", sys_upload, "source_file", f_a)
      @@ Row1("description", v_foo),
    Row2("source_system", Str(s_user), "source_file", f_b)
      @@ Row1("material", v_R7),
    Row2("source_system", None, "source_file", f_a)
      @@ Row1("material", v_S9),
    Row2("source_system", Str(<<>>), "material", None)
      @@ Row1("sap_material", v_Fe),
    Row2("source_file", FloatNaN, "material", None),
    Row2("source_system", FloatNaN, "material", v_Zn) }

\* field names: three keys of FIELD_MAP, the identifier, category_master
\* and an attribute outside the master schema
MapFields ==
  { "material", "description", "cost", "part_number", "category_master",
    "bin_loc" }

InitMap ==
  /\ arg_fieldname \in MapFields
  /\ arg_rows \in SeqsUpTo(MapRows, MaxMapRows)
  /\ db_row = None
  /\ user_rows = <<>>
  /\ called = ""
  /\ outcome = Return(None)
  /\ PartMaster = {}
  /\ snapshot = NoSnapshot
  /\ uploads = 0
  /\ work = <<>>
  /\ produced = [pn \in PartNumbers |-> {}]
  /\ arg_df = NoFrame
  /\ arg_name = <<>>

CallResolveField ==
  /\ called = ""
  /\ called' = "resolve_field"
  /\ outcome' = resolve_field(arg_fieldname, arg_rows)
  /\ UNCHANGED <<merge_vars, web_vars, map_vars, clean_vars>>

CallBuildPayload ==
  /\ called = ""
  /\ called' = "build_payload"
  /\ outcome' = Return(build_payload(arg_rows))
  /\ UNCHANGED <<merge_vars, web_vars, map_vars, clean_vars>>

CallMapGroupToMaster(part_number) ==
  /\ called = ""
  /\ called' = "map_group_to_master"
  /\ outcome' = map_group_to_master(part_number, arg_rows)
  /\ UNCHANGED <<merge_vars, web_vars, map_vars, clean_vars>>

NextMap ==
  \/ CallResolveField
  \/ CallBuildPayload
  \/ \E part_number \in PartNumbers : CallMapGroupToMaster(part_number)

SpecMap == InitMap /\ [][NextMap]_vars

(* ---------------------------------------------------------------------- *)
(* cleansing_config.py                                                     *)
(* ---------------------------------------------------------------------- *)
\* normalized name -> canonical master name
COLUMN_SYNONYMS ==
  (<<"p","a","r","t","_","n","o">>
     :> <<"p","a","r","t","_","n","u","m","b","e","r">>) @@
  (<<"p","a","r","t","n","o">>
     :> <<"p","a","r","t","_","n","u","m","b","e","r">>) @@
  (<<"m","a","t","e","r","i","a","l","_","c","o","d","e">>
     :> <<"p","a","r","t","_","n","u","m","b","e","r">>) @@
  (<<"m","a","t","e","r","i","a","l","_","n","o">>
     :> <<"p","a","r","t","_","n","u","m","b","e","r">>) @@
  (<<"m","a","t","_","c","o","d","e">>
     :> <<"p","a","r","t","_","n","u","m","b","e","r">>) @@
  (<<"m","a","t","_","n","o">>
     :> <<"p","a","r","t","_","n","u","m","b","e","r">>) @@
  (<<"d","e","s","c","r","i","p","t","i","o","n","_","r","a","w">>
     :> <<"d","e","s","c","r","i","p","t","i","o","n">>) @@
  (<<"i","t","e","m","_","d","e","s","c","r","i","p","t","i","o","n">>
     :> <<"d","e","s","c","r","i","p","t","i","o","n">>) @@
  (<<"d","e","s","c">>
     :> <<"d","e","s","c","r","i","p","t","i","o","n">>) @@
  (<<"l","o","n","g","_","d","e","s","c","r","i","p","t","i","o","n">>
     :> <<"d","e","s","c","r","i","p","t","i","o","n">>) @@
  (<<"s","h","o","r","t","_","d","e","s","c","r","i","p","t","i","o","n">>
     :> <<"d","e","s","c","r","i","p","t","i","o","n">>) @@
  (<<"s","p","e","c","_","m","a","t","e","r","i","a","l">>
     :> <<"m","a","t","e","r","i","a","l">>) @@
  (<<"m","a","t">>
     :> <<"m","a","t","e","r","i","a","l">>) @@
  (<<"s","p","e","c","_","d","i","m","e","n","s","i","o","n","s">>
     :> <<"d","i","m","e","n","s","i","o","n","s">>) @@
  (<<"s","i","z","e">>
     :> <<"d","i","m","e","n","s","i","o","n","s">>) @@
  (<<"v","e","n","d","o","r">>
     :> <<"v","e","n","d","o","r","_","n","a","m","e">>) @@
  (<<"v","e","n","d","o","r","n","a","m","e">>
     :> <<"v","e","n","d","o","r","_","n","a","m","e">>) @@
  (<<"v","e","n","d","o","r","_","c","o","d","e">>
     :> <<"v","e","n","d","o","r","_","c","o","d","e">>) @@
  (<<"p","r","i","c","e">>
     :> <<"c","o","s","t">>) @@
  (<<"u","n","i","t","_","p","r","i","c","e">>
     :> <<"c","o","s","t">>) @@
  (<<"u","n","i","t","p","r","i","c","e">>
     :> <<"c","o","s","t">>) @@
  (<<"p","r","i","c","e","_","p","e","r","_","u","o","m">>
     :> <<"c","o","s","t">>) @@
  (<<"p","r","i","c","e","_","p","e","r","_","u","n","o","m">>
     :> <<"c","o","s","t">>) @@
  (<<"p","o","_","p","r","i","c","e","_","p","e","r","_","u","n","i","t">>
     :> <<"c","o","s","t">>) @@
  (<<"i","n","v","o","i","c","e","_","u","n","i","t","_","p","r","i","c","e">>
     :> <<"c","o","s","t">>) @@
  (<<"p","r","i","c","e","_","p","e","r","_","u","n","i","t">>
     :> <<"c","o","s","t">>) @@
  (<<"c","a","t","e","g","o","r","y">>
     :> <<"c","a","t","e","g","o","r","y","_","r","a","w">>) @@
  (<<"s","u","b","_","c","a","t","e","g","o","r","y">>
     :> <<"c","a","t","e","g","o","r","y","_","r","a","w">>) @@
  (<<"c","a","t","e","g","o","r","y","n","a","m","e">>
     :> <<"c","a","t","e","g","o","r","y","_","r","a","w">>) @@
  (<<"i","s","_","s","t","a","n","d","a","r","d","_","p","a","r","t">>
     :> <<"i","s","_","s","t","a","n","d","a","r","d","_","p","a","r","t">>) @@
  (<<"s","t","a","n","d","a","r","d","_","p","a","r","t">>
     :> <<"i","s","_","s","t","a","n","d","a","r","d","_","p","a","r","t">>) @@
  (<<"a","c","t","i","v","e">>
     :> <<"a","c","t","i","v","e","_","f","l","a","g">>) @@
  (<<"a","c","t","i","v","e","_","s","t","a","t","u","s">>
     :> <<"a","c","t","i","v","e","_","f","l","a","g">>) @@
  (<<"e","n","g","i","n","e","e","r">>
     :> <<"e","n","g","i","n","e","e","r","_","n","a","m","e">>) @@
  (<<"e","n","g","i","n","e","e","r","n","a","m","e">>
     :> <<"e","n","g","i","n","e","e","r","_","n","a","m","e">>) @@
  (<<"d","r","a","w","i","n","g">>
     :> <<"d","r","a","w","i","n","g","_","n","o">>) @@
  (<<"d","r","a","w","i","n","g","_","n","u","m","b","e","r">>
     :> <<"d","r","a","w","i","n","g","_","n","o">>) @@
  (<<"c","r","e","a","t","e","d","_","o","n">>
     :> <<"c","r","e","a","t","e","d","_","d","a","t","e">>) @@
  (<<"c","r","e","a","t","i","o","n","_","d","a","t","e">>
     :> <<"c","r","e","a","t","e","d","_","d","a","t","e">>) @@
  (<<"l","a","s","t","_","m","o","d","i","f","i","e","d","_","d","a","t","e">>
     :> <<"l","a","s","t","_","m","o","d","i","f","i","e","d">>) @@
  (<<"m","o","d","i","f","i","e","d","_","o","n">>
     :> <<"l","a","s","t","_","m","o","d","i","f","i","e","d">>) @@
  (<<"q","t","y">>
     :> <<"q","u","a","n","t","i","t","y">>) @@
  (<<"q","t","y","_","o","r","d","e","r","e","d">>
     :> <<"q","u","a","n","t","i","t","y">>) @@
  (<<"o","r","d","e","r","_","q","t","y">>
     :> <<"q","u","a","n","t","i","t","y">>) @@
  (<<"q","t","y","_","s","u","p","p","l","i","e","d">>
     :> <<"q","u","a","n","t","i","t","y">>) @@
  (<<"c","o","m","m","e","n","t">>
     :> <<"r","e","m","a","r","k","s">>) @@
  (<<"c","o","m","m","e","n","t","s">>
     :> <<"r","e","m","a","r","k","s">>) @@
  (<<"n","o","t","e">>
     :> <<"n","o","t","e","s">>) @@
  (<<"n","o","t","e","s","_","f","i","e","l","d">>
     :> <<"n","o","t","e","s">>)

(* ---------------------------------------------------------------------- *)
(* cleansing.py: column names                                              *)
(* ---------------------------------------------------------------------- *)
PREFIXES ==
  << <<"s","a","p">>, <<"v","a","u","l","t">>, <<"p","o","w","e","r","b","i">>,
     <<"p","o">>, <<"i","n","v","o","i","c","e">>, <<"u","s","e","r">> >>

AlnumLower == Range(LowerChars) \cup Digits

\* re.sub(r"[^a-z0-9]+", "_", s): every run of other characters becomes one
\* underscore
sub_non_alnum(s) ==
  LET at == SelectSeq([i \in 1..Len(s) |-> i],
                      LAMBDA i : \/ s[i] \in AlnumLower
                                 \/ i = 1
                                 \/ s[i - 1] \in AlnumLower)
  IN  [j \in 1..Len(at) |->
         IF s[at[j]] \in AlnumLower THEN s[at[j]] ELSE "_"]

\* s.strip("_")
strip_underscores(s) ==
  LET keep == {i \in 1..Len(s) : s[i] # "_"}
  IN  IF keep = {} THEN <<>> ELSE SubSeq(s, SetMin(keep), SetMax(keep))

\* strip_prefix repeated until no prefix matches
RECURSIVE strip_prefix_all(_)
strip_prefix_all(s) ==
  LET hits == {p \in 1..Len(PREFIXES) :
                 starts_with(s, 1, PREFIXES[p] \o <<"_">>)}
  IN  IF hits = {} THEN s
      ELSE strip_prefix_all(SubSeq(s, Len(PREFIXES[SetMin(hits)]) + 2, Len(s)))

\* the loop over PREFIXES: the first prefix that matches is cut off, once
strip_prefix(s) ==
  LET hits == {p \in 1..Len(PREFIXES) :
                 starts_with(s, 1, PREFIXES[p] \o <<"_">>)}
  IN  IF hits = {} THEN s
      ELSE SubSeq(s, Len(PREFIXES[SetMin(hits)]) + 2, Len(s))

_normalize_name(name) ==
  strip_prefix(
    strip_underscores(sub_non_alnum(str_lower(str_strip(py_str(name))))))

\* COLUMN_SYNONYMS.get(norm, norm)
canonical_name(norm) ==
  IF norm \in DOMAIN COLUMN_SYNONYMS THEN COLUMN_SYNONYMS[norm] ELSE norm

(* ---------------------------------------------------------------------- *)
(* cleansing.py: DataFrames.  A DataFrame is DataFrame(columns, index):    *)
(* its columns in order, each a label (a str) with one cell per row, and   *)
(* the number of its rows.                                                 *)
(* ---------------------------------------------------------------------- *)
Column(label, cells) == [label |-> label, cells |-> cells]

labels(df) == [i \in 1..Len(df.columns) |-> df.columns[i].label]

\* df.empty
empty(df) == Len(df.columns) = 0 \/ df.index = 0

\* c in df.columns
has_column(df, c) == \E i \in 1..Len(df.columns) : df.columns[i].label = c

\* df[c], for a label that names one column
series_of(df, c) ==
  df.columns[SetMin({i \in 1..Len(df.columns) : df.columns[i].label = c})]
    .cells

\* df[c] = cells: every column labelled c is overwritten, a new column is
\* added at the end when there is none
set_column(df, c, cells) ==
  IF has_column(df, c)
  THEN DataFrame([i \in 1..Len(df.columns) |->
                    IF df.columns[i].label = c THEN Column(c, cells)
                    ELSE df.columns[i]],
                 df.index)
  ELSE DataFrame(Append(df.columns, Column(c, cells)), df.index)

\* df[c] = None
set_none(df, c) == set_column(df, c, [r \in 1..df.index |-> None])

\* df.rename(columns={orig: canonical}): every column labelled orig
rename(df, orig, canonical) ==
  DataFrame([i \in 1..Len(df.columns) |->
               IF df.columns[i].label = orig
               THEN Column(canonical, df.columns[i].cells)
               ELSE df.columns[i]],
            df.index)

\* df.drop(columns=[c]) for every c of dropped
drop(df, dropped) ==
  DataFrame(SelectSeq(df.columns, LAMBDA col : col.label \notin dropped),
            df.index)

\* row.get(c) for row r of df
cell(df, c, r) == IF has_column(df, c) THEN series_of(df, c)[r] ELSE None

(* ---------------------------------------------------------------------- *)
(* cleansing.py: normalize_and_merge_columns.  Within a group of several  *)
(* columns the labels read are taken to name one column each.             *)
(* ---------------------------------------------------------------------- *)
canonical_of(c) == canonical_name(_normalize_name(Str(c)))

\* groups.keys() in insertion order after original_cols[1..n]
RECURSIVE group_names(_, _)
group_names(original_cols, n) ==
  IF n = 0 THEN <<>>
  ELSE LET before == group_names(original_cols, n - 1)
           canonical == canonical_of(original_cols[n])
       IN  IF \E i \in 1..Len(before) : before[i] = canonical
           THEN before
           ELSE Append(before, canonical)

\* groups[canonical]
group_cols(original_cols, canonical) ==
  SelectSeq(original_cols, LAMBDA c : canonical_of(c) = canonical)

\* one pass of the loop that fills new_df[canonical] from new_df[c]
fill_from(new_df, canonical, c) ==
  LET series == [r \in 1..new_df.index |->
                   IF series_of(new_df, c)[r] = FloatNaN THEN None
                   ELSE series_of(new_df, c)[r]]
      target == series_of(new_df, canonical)
  IN  set_column(new_df, canonical,
        [r \in 1..new_df.index |->
           IF ~notna(target[r]) /\ notna(series[r]) THEN series[r]
           ELSE target[r]])

RECURSIVE fill_all(_, _, _, _)
fill_all(new_df, canonical, cols, n) ==
  IF n = 0 THEN new_df
  ELSE fill_from(fill_all(new_df, canonical, cols, n - 1), canonical,
                 cols[n])

\* the body of the loop over groups.items()
merge_group(new_df, canonical, cols) ==
  IF Len(cols) = 1
  THEN IF cols[1] # canonical THEN rename(new_df, cols[1], canonical)
       ELSE new_df
  ELSE drop(fill_all(set_none(new_df, canonical), canonical, cols,
                     Len(cols)),
            Range(cols) \ {canonical})

RECURSIVE merge_all(_, _, _, _)
merge_all(df, original_cols, names, n) ==
  IF n = 0 THEN df
  ELSE merge_group(merge_all(df, original_cols, names, n - 1), names[n],
                   group_cols(original_cols, names[n]))

normalize_and_merge_columns(df) ==
  LET original_cols == labels(df)
      names == group_names(original_cols, Len(original_cols))
  IN  merge_all(df, original_cols, names, Len(names))

(* ---------------------------------------------------------------------- *)
(* cleansing.py: cell cleaning and the later stages                       *)
(* ---------------------------------------------------------------------- *)
\* _clean_str handing back the text as it came, untrimmed
_clean_str_untrimmed(v) ==
  IF v = None THEN None
  ELSE IF v = FloatNaN THEN None
  ELSE LET s == str_strip(py_str(v))
       IN  IF s = <<>>
              \/ str_lower(s) \in { <<"n","a","n">>, <<"n","o","n","e">>,
                                    <<"n","u","l","l">> }
           THEN None
           ELSE Str(py_str(v))

_clean_str(v) ==
  IF v = None THEN None
  ELSE IF v = FloatNaN THEN None
  ELSE LET s == str_strip(py_str(v))
       IN  IF s = <<>>
              \/ str_lower(s) \in { <<"n","a","n">>, <<"n","o","n","e">>,
                                    <<"n","u","l","l">> }
           THEN None
           ELSE Str(s)

basic_cleaning(df) ==
  DataFrame([i \in 1..Len(df.columns) |->
               Column(df.columns[i].label,
                      [r \in 1..df.index |->
                         _clean_str(df.columns[i].cells[r])])],
            df.index)

c_description     == <<"d","e","s","c","r","i","p","t","i","o","n">>
c_dimensions      == <<"d","i","m","e","n","s","i","o","n","s">>
c_category_raw    == <<"c","a","t","e","g","o","r","y","_","r","a","w">>
c_category_master == <<"c","a","t","e","g","o","r","y","_","m","a","s","t","e","r">>

\* \d+(?:\.\d+)? at position i of s: the position after it, i for no match
re_number(s, i) ==
  LET e == scan_digits(s, i)
  IN  IF e = i THEN i
      ELSE IF e < Len(s) /\ s[e] = "." /\ s[e + 1] \in Digits
      THEN scan_digits(s, e + 1)
      ELSE e

\* the units of DIM_PATTERN in the order of the alternation
DIM_UNITS == << <<"m","m">>, <<"c","m">>, <<"i","n","c","h">>, <<"i","n">> >>

NoMatch == [found |-> FALSE, a |-> <<>>, b |-> <<>>, unit |-> <<>>]

\* DIM_PATTERN matched at position i of s; unit is <<>> for an unmatched
\* third group
dim_match_at(s, i) ==
  LET e1 == re_number(s, i)
      x  == skip_ws(s, e1)
      b0 == skip_ws(s, x + 1)
      e2 == re_number(s, b0)
      u0 == skip_ws(s, e2)
      us == {u \in 1..Len(DIM_UNITS) :
               starts_with(str_lower(s), u0, DIM_UNITS[u])}
  IN  IF e1 = i \/ x > Len(s) THEN NoMatch
      ELSE IF s[x] \notin {"x", "X"} \/ e2 = b0 THEN NoMatch
      ELSE [found |-> TRUE,
            a |-> SubSeq(s, i, e1 - 1),
            b |-> SubSeq(s, b0, e2 - 1),
            unit |-> IF us = {} THEN <<>>
                     ELSE SubSeq(s, u0, u0 + Len(DIM_UNITS[SetMin(us)]) - 1)]

\* DIM_PATTERN.search(s): the leftmost match
dim_search(s) ==
  LET at == {i \in 1..Len(s) : dim_match_at(s, i).found}
  IN  IF at = {} THEN NoMatch ELSE dim_match_at(s, SetMin(at))

\* _infer_dim without the "if dim: return dim" test
_infer_dim_overwrite(df, r) ==
  LET desc == cell(df, c_description, r)
  IN  IF ~Truthy(desc) THEN None
      ELSE LET m == dim_search(py_str(desc))
           IN  IF m.found
               THEN Str(m.a \o <<"x">> \o m.b \o <<" ">>
                        \o (IF m.unit = <<>> THEN DIM_UNITS[1] ELSE m.unit))
               ELSE None

\* _infer_dim(row) for row r of df, the description being a str when read
_infer_dim(df, r) ==
  LET dim  == cell(df, c_dimensions, r)
      desc == cell(df, c_description, r)
  IN  IF Truthy(dim) THEN dim
      ELSE IF ~Truthy(desc) THEN None
      ELSE LET m == dim_search(py_str(desc))
           IN  IF m.found
               THEN Str(m.a \o <<"x">> \o m.b \o <<" ">>
                        \o (IF m.unit = <<>> THEN DIM_UNITS[1] ELSE m.unit))
               ELSE None

\* ensure_dimensions; re.search raises TypeError for a description that is
\* not a str
ensure_dimensions(df) ==
  LET with_dim == IF has_column(df, c_dimensions) THEN df
                  ELSE set_none(df, c_dimensions)
      searched == {r \in 1..df.index :
                     /\ ~Truthy(cell(with_dim, c_dimensions, r))
                     /\ Truthy(cell(with_dim, c_description, r))}
  IN  IF \E r \in searched :
           ~isinstance(cell(with_dim, c_description, r), "str")
      THEN Raise("TypeError")
      ELSE Return(set_column(with_dim, c_dimensions,
                    [r \in 1..df.index |-> _infer_dim(with_dim, r)]))

ensure_category_columns(df) ==
  LET with_raw == IF has_column(df, c_category_raw) THEN df
                  ELSE set_none(df, c_category_raw)
  IN  IF has_column(with_raw, c_category_master) THEN with_raw
      ELSE set_column(with_raw, c_category_master,
                      series_of(with_raw, c_category_raw))

need_cols ==
  << <<"p","a","r","t","_","n","u","m","b","e","r">>,
     c_description,
     <<"m","a","t","e","r","i","a","l">>,
     c_dimensions, c_category_raw, c_category_master,
     <<"c","o","s","t">>,
     <<"c","u","r","r","e","n","c","y">>,
     <<"v","e","n","d","o","r","_","n","a","m","e">> >>

RECURSIVE ensure_core_upto(_, _)
ensure_core_upto(df, n) ==
  IF n = 0 THEN df
  ELSE LET before == ensure_core_upto(df, n - 1)
       IN  IF has_column(before, need_cols[n]) THEN before
           ELSE set_none(before, need_cols[n])

ensure_core_fields(df) == ensure_core_upto(df, Len(need_cols))

cleanup_pipeline(df) ==
  IF empty(df) THEN Return(NoFrame)
  ELSE LET dimensioned ==
             ensure_dimensions(basic_cleaning(normalize_and_merge_columns(df)))
       IN  IF dimensioned.exc # "none" THEN dimensioned
           ELSE Return(ensure_core_fields(
                         ensure_category_columns(dimensioned.ret)))

(* ---------------------------------------------------------------------- *)
(* Calls of _normalize_name                                                *)
(* ---------------------------------------------------------------------- *)
MaxNameTokens == 3

\* pieces of raw column names: prefixes in either case with a separator,
\* a synonym, a plain name, separators
NameTokens ==
  { <<"S","A","P","_">>, <<"p","o","-">>, <<"u","s","e","r"," ">>,
    <<"M","a","t">>, <<"x">>, <<"_">>, <<" ">> }

RawNames ==
  { Str(Concat(ts)) : ts \in SeqsUpTo(NameTokens, MaxNameTokens) }
  \cup { PyInt(<<"7">>) }

InitName ==
  /\ arg_name \in RawNames
  /\ arg_df = NoFrame
  /\ arg_fieldname = ""
  /\ arg_rows = <<>>
  /\ db_row = None
  /\ user_rows = <<>>
  /\ called = ""
  /\ outcome = Return(None)
  /\ PartMaster = {}
  /\ snapshot = NoSnapshot
  /\ uploads = 0
  /\ work = <<>>
  /\ produced = [pn \in PartNumbers |-> {}]

CallNormalizeName ==
  /\ called = ""
  /\ called' = "_normalize_name"
  /\ outcome' = Return(Str(_normalize_name(arg_name)))
  /\ UNCHANGED <<merge_vars, web_vars, map_vars, clean_vars>>

NextName == CallNormalizeName

SpecName == InitName /\ [][NextName]_vars

(* ---------------------------------------------------------------------- *)
(* Calls of the functions of cleansing.py that take a DataFrame            *)
(* ---------------------------------------------------------------------- *)
MaxFrameCols == 3
MaxFrameRows == 2

\* column families: label -> the non-missing values its cells may hold.
\* Synonyms of vendor_name next to vendor_code and to a column already
\* called vendor_name
VendorFamily ==
  (<<"V","e","n","d","o","r">> :> {v_Cu}) @@
  (<<"V","e","n","d","o","r","N","a","m","e">> :> {v_Zn}) @@
  (<<"v","e","n","d","o","r","_","c","o","d","e">> :> {v_R7}) @@
  (<<"v","e","n","d","o","r","_","n","a","m","e">> :> {v_Fe})

\* names with one and with two prefixes
PrefixFamily ==
  (<<"s","a","p","_","p","o","_","i","d">> :> {v_Cu}) @@
  (<<"p","o","_","i","d">> :> {v_Zn}) @@
  (<<"V","e","n","d","o","r">> :> {v_Fe})

\* a description with a size in it, a size and a category
PartFamily ==
  (<<"D","e","s","c">> :>
     {Str(<<"r","o","d"," ","1","0"," ","X"," ","2",".","5","c","m">>)}) @@
  (<<"S","i","z","e">> :> {Str(<<"5","x","5">>)}) @@
  (<<"C","a","t","e","g","o","r","y">> :> {Str(<<"n","u","t">>)})

\* untrimmed text, sentinels, blanks and numbers
CellFamily ==
  (<<"m","a","t","e","r","i","a","l">> :>
     {Str(<<" ","Z","n"," ">>), Str(<<" ","N","a","N"," ">>)}) @@
  (<<"c","o","s","t">> :> {PyInt(<<"7">>), Str(<<>>)})

\* a family with the sets of missing values a batch of it may hold
ColumnFamilies ==
  { [cells |-> VendorFamily, missing |-> {{None}, {FloatNaN}}],
    [cells |-> PrefixFamily, missing |-> {{FloatNaN}}] }

CleanFamilies ==
  { [cells |-> PartFamily, missing |-> {{FloatNaN}}],
    [cells |-> CellFamily, missing |-> {{None, FloatNaN}}] }

\* the sequences of at most n distinct elements of S
Selections(S, n) ==
  {q \in SeqsUpTo(S, n) :
     \A i, j \in 1..Len(q) : i # j => q[i] # q[j]}

\* the columns labelled q with index rows each, a cell holding one of its
\* family's values or a missing value
RECURSIVE ColumnsOver(_, _, _, _)
ColumnsOver(q, index, cells, missing) ==
  IF q = <<>> THEN {<<>>}
  ELSE { <<Column(Head(q), series)>> \o rest :
           series \in [1..index -> cells[Head(q)] \cup missing],
           rest \in ColumnsOver(Tail(q), index, cells, missing) }

\* the batches of a family: at most MaxFrameCols columns with distinct
\* labels and at most MaxFrameRows rows
Frames(family) ==
  UNION { { DataFrame(columns, index) :
              columns \in ColumnsOver(q, index, family.cells, missing) } :
          q \in Selections(DOMAIN family.cells, MaxFrameCols),
          index \in 0..MaxFrameRows,
          missing \in family.missing }

InitColumns ==
  /\ \E family \in ColumnFamilies : arg_df \in Frames(family)
  /\ arg_name = <<>>
  /\ arg_fieldname = ""
  /\ arg_rows = <<>>
  /\ db_row = None
  /\ user_rows = <<>>
  /\ called = ""
  /\ outcome = Return(None)
  /\ PartMaster = {}
  /\ snapshot = NoSnapshot
  /\ uploads = 0
  /\ work = <<>>
  /\ produced = [pn \in PartNumbers |-> {}]

CallNormalizeAndMergeColumns ==
  /\ called = ""
  /\ called' = "normalize_and_merge_columns"
  /\ outcome' = Return(normalize_and_merge_columns(arg_df))
  /\ UNCHANGED <<merge_vars, web_vars, map_vars, clean_vars>>

NextColumns == CallNormalizeAndMergeColumns

SpecColumns == InitColumns /\ [][NextColumns]_vars

\* the batches handed to the cleaning stages keep distinct labels through
\* the column merge, so that df[col] names one column in every stage
InitClean ==
  /\ \E family \in CleanFamilies : arg_df \in Frames(family)
  /\ arg_name = <<>>
  /\ arg_fieldname = ""
  /\ arg_rows = <<>>
  /\ db_row = None
  /\ user_rows = <<>>
  /\ called = ""
  /\ outcome = Return(None)
  /\ PartMaster = {}
  /\ snapshot = NoSnapshot
  /\ uploads = 0
  /\ work = <<>>
  /\ produced = [pn \in PartNumbers |-> {}]

CallBasicCleaning ==
  /\ called = ""
  /\ called' = "basic_cleaning"
  /\ outcome' = Return(basic_cleaning(arg_df))
  /\ UNCHANGED <<merge_vars, web_vars, map_vars, clean_vars>>

CallCleanupPipeline ==
  /\ called = ""
  /\ called' = "cleanup_pipeline"
  /\ outcome' = cleanup_pipeline(arg_df)
  /\ UNCHANGED <<merge_vars, web_vars, map_vars, clean_vars>>

NextClean ==
  \/ CallBasicCleaning
  \/ CallCleanupPipeline

SpecClean == InitClean /\ [][NextClean]_vars

(* ---------------------------------------------------------------------- *)
(* Calls of ensure_dimensions.  cleanup_pipeline is its only caller and    *)
(* hands it a batch with rows, named by normalize_and_merge_columns and    *)
(* cleaned by basic_cleaning: canonical labels, every cell null or a       *)
(* trimmed text.                                                           *)
(* ---------------------------------------------------------------------- *)
d_rod == Str(<<"r","o","d"," ","1","0"," ","X"," ","2",".","5","c","m">>)
d_two == Str(<<"1","x","2"," ","3","x","4","i","n">>)
d_nut == Str(<<"n","u","t">>)
d_3x4 == Str(<<"3","x","4"," ","i","n">>)

DimFamily ==
  (c_description :> {d_rod, d_two, d_nut}) @@
  (c_dimensions :> {d_3x4}) @@
  (<<"m","a","t","e","r","i","a","l">> :> {v_Zn})

InitDims ==
  /\ \E q \in Selections(DOMAIN DimFamily, MaxFrameCols),
        index \in 1..MaxFrameRows :
       \E columns \in ColumnsOver(q, index, DimFamily, {None}) :
         arg_df = DataFrame(columns, index)
  /\ ~empty(arg_df)
  /\ arg_name = <<>>
  /\ arg_fieldname = ""
  /\ arg_rows = <<>>
  /\ db_row = None
  /\ user_rows = <<>>
  /\ called = ""
  /\ outcome = Return(None)
  /\ PartMaster = {}
  /\ snapshot = NoSnapshot
  /\ uploads = 0
  /\ work = <<>>
  /\ produced = [pn \in PartNumbers |-> {}]

CallEnsureDimensions ==
  /\ called = ""
  /\ called' = "ensure_dimensions"
  /\ outcome' = ensure_dimensions(arg_df)
  /\ UNCHANGED <<merge_vars, web_vars, map_vars, clean_vars>>

NextDims == CallEnsureDimensions

SpecDims == InitDims /\ [][NextDims]_vars

(* ---------------------------------------------------------------------- *)
(* Properties                                                              *)
(* ---------------------------------------------------------------------- *)
\* the prior record as a row ({} when there is none)
Prior == db_or_empty(db_row)

\* some user row supplies a non-missing value for key k
UserSupplies(k) ==
  \E i \in 1..Len(user_rows) :
    k \in DOMAIN user_rows[i] /\ ~_is_missing(user_rows[i][k])

Returned(fn) == called = fn /\ outcome.exc = "none"

\* C1: merge_db_with_user keeps every key of the prior record that holds a
\* non-missing value, schema column or not, with the prior value when no
\* user row supplies a non-missing value for it (the identifier and the
\* provenance field have their own rules and are left out here).
C1_PriorKeysRetained ==
  Returned("merge_db_with_user") =>
    \A k \in DOMAIN Prior \ {"part_number", "sources"} :
      (~_is_missing(Prior[k]) /\ ~UserSupplies(k)) =>
        (k \in DOMAIN outcome.ret /\ outcome.ret[k] = Prior[k])

\* C2: merge_db_and_user keeps the prior value of every field other than
\* sources unless some user row carries a non-missing value for it, missing
\* being null, NaN, blank or a nan/none/null sentinel.
C2_MissingNeverOverwrites ==
  Returned("merge_db_and_user") =>
    \A k \in DOMAIN Prior \ {"sources"} :
      (~_is_missing(Prior[k]) /\ ~UserSupplies(k)) =>
        (k \in DOMAIN outcome.ret /\ outcome.ret[k] = Prior[k])

\* C3: merge_db_with_user is a left fold over [prior, user row 1..n]: each
\* schema field other than part_number and sources holds the value of the
\* last element that supplies a non-missing one, and null when none does.
C3_LeftFold ==
  Returned("merge_db_with_user") =>
    \A col \in Range(DB_COLUMNS) \ {"part_number", "sources"} :
      LET elems == <<Prior>> \o user_rows
          supplying == {i \in 1..Len(elems) :
                          col \in DOMAIN elems[i] /\ ~_is_missing(elems[i][col])}
      IN  /\ col \in DOMAIN outcome.ret
          /\ outcome.ret[col] =
               IF supplying = {} THEN None
               ELSE elems[SetMax(supplying)][col]

\* C3 witness: the prior record and both user rows carry material, the last
\* user row's value is missing, and the first user row's value is returned.
C3_Witness ==
  /\ Returned("merge_db_with_user")
  /\ Len(user_rows) = 2
  /\ Get(Prior, "material") = v_Cu
  /\ Get(user_rows[1], "material") = v_Zn
  /\ "material" \in DOMAIN user_rows[2]
  /\ _is_missing(user_rows[2]["material"])
  /\ outcome.ret["material"] = v_Zn

\* C4: a non-schema field that a user row supplies with a non-missing value
\* appears with that value in the record merge_db_with_user returns.
C4_UnknownFieldsPassThrough ==
  Returned("merge_db_with_user") =>
    \A i \in 1..Len(user_rows) :
      \A k \in DOMAIN user_rows[i] \ Range(DB_COLUMNS) :
        (/\ ~_is_missing(user_rows[i][k])
         /\ \A j \in (i+1)..Len(user_rows) :
              k \notin DOMAIN user_rows[j] \/ _is_missing(user_rows[j][k]))
        => (k \in DOMAIN outcome.ret /\ outcome.ret[k] = user_rows[i][k])

\* C5: merge_db_with_user returns, also for an empty list of user rows, a
\* record whose part_number is the last user row's when that is non-missing
\* and the prior record's otherwise, a non-empty string whenever either
\* holds a non-missing identifier.
C5_IdentifierDetermined ==
  called = "merge_db_with_user" =>
    LET last  == IF user_rows = <<>> THEN None
                 ELSE Get(user_rows[Len(user_rows)], "part_number")
        stored == Get(Prior, "part_number")
        want  == IF ~_is_missing(last) THEN last ELSE stored
    IN  (db_row # None \/ user_rows # <<>>) =>
          /\ outcome.exc = "none"
          /\ ~_is_missing(want) =>
               /\ isinstance(outcome.ret["part_number"], "str")
               /\ outcome.ret["part_number"].v # <<>>
               /\ outcome.ret["part_number"].v = py_str(want)

C7_MalformedProvenanceNotFatal ==
  (called = "merge_db_with_user" /\ user_rows # <<>>) =>
    /\ outcome.exc = "none"
    /\ LET s == Get(Prior, "sources")
           after == json_loads(outcome.ret["sources"].v)
       IN  (isinstance(s, "str") /\ ~_is_missing(s) /\ ~json_loads(s.v).ok) =>
             /\ after.ok
             /\ Len(after.val.v) = 1 + Len(user_rows)
             /\ after.val.v[1] = Dict(<< <<k_raw, s>> >>)

\* C7 witness: a truncated JSON text is stored as sources and is returned as
\* the first of two entries.
C7_Witness ==
  /\ Returned("merge_db_with_user")
  /\ Get(Prior, "sources") = Str(<<"[","{","\"","r","a","w","\"">>)
  /\ Len(user_rows) = 1
  /\ Len(json_loads(outcome.ret["sources"].v).val.v) = 2

\* C8: for a prior sources value that is a JSON array string, a structured
\* list or a malformed string, the prior provenance is a prefix of the
\* sources list merge_db_and_user returns.
C8_SourcesOnlyGrow ==
  (Returned("merge_db_and_user") /\ "sources" \in DOMAIN Prior) =>
    LET s == Prior["sources"]
        after == json_loads(outcome.ret["sources"].v)
        before ==
          IF isinstance(s, "list") THEN s.v
          ELSE IF isinstance(s, "str") /\ json_loads(s.v).ok
                  /\ isinstance(json_loads(s.v).val, "list")
               THEN json_loads(s.v).val.v
          ELSE <<>>
        malformed ==
          isinstance(s, "str") /\ ~_is_missing(s) /\ ~json_loads(s.v).ok
    IN  /\ after.ok
        /\ isinstance(after.val, "list")
        /\ Len(after.val.v) >= Len(before)
        /\ SubSeq(after.val.v, 1, Len(before)) = before
        /\ malformed => Len(after.val.v) = 1 + Len(user_rows)

\* C10: merge_records_by_part_number is last-non-null-wins: each field other
\* than sources holds the value of the last row whose value for it is
\* non-missing, and is null or absent when it is missing in every row.
C10_LastNonNullWins ==
  Returned("merge_records_by_part_number") =>
    \A k \in (UNION {DOMAIN user_rows[i] : i \in 1..Len(user_rows)})
               \ {"sources"} :
      LET supplying == {i \in 1..Len(user_rows) :
                          k \in DOMAIN user_rows[i]
                          /\ ~_is_missing(user_rows[i][k])}
      IN  IF supplying = {}
          THEN k \notin DOMAIN outcome.ret \/ outcome.ret[k] = None
          ELSE /\ k \in DOMAIN outcome.ret
               /\ outcome.ret[k] = user_rows[SetMax(supplying)][k]

\* C10 witness: two rows disagree on material and the later row's value is
\* returned.
C10_Witness ==
  /\ Returned("merge_records_by_part_number")
  /\ Len(user_rows) = 2
  /\ Get(user_rows[1], "material") = v_Zn
  /\ Get(user_rows[2], "material") = v_Fe
  /\ outcome.ret["material"] = v_Fe

\* C9: on the web upload path, the provenance entries an earlier upload
\* produced for a part number are contained in the sources of the merged
\* record every later upload produces for that part number.
C9_ProvenanceAppendOnly ==
  Returned("run_stage2_from_django") =>
    \A i \in 1..Len(outcome.ret) :
      LET rec == outcome.ret[i]
          listed == json_loads(rec["sources"].v)
      IN  /\ listed.ok
          /\ isinstance(listed.val, "list")
          /\ produced[rec["part_number"]] \subseteq Range(listed.val.v)

\* the provenance entry the batch merger owes row r: both keys, a missing
\* one as null, a present one as its text
C11_Entry(r) ==
  LET text(k) == IF k \in DOMAIN r /\ ~_is_missing(r[k])
                 THEN Str(py_str(r[k])) ELSE None
  IN  Dict(<< <<k_source_system, text("source_system")>>,
              <<k_source_file,   text("source_file")>> >>)

C11_Sourced(r) ==
  \E k \in {"source_system", "source_file"} :
    k \in DOMAIN r /\ ~_is_missing(r[k])

\* C11: the sources field merge_records_by_part_number returns is the JSON
\* text of an array that holds, in input order, exactly one
\* {source_system, source_file} entry for each input row in which at least
\* one of the two is non-missing; a row in which both are missing adds no
\* entry, and its other non-missing fields are still found in the result.
C11_BatchProvenance ==
  Returned("merge_records_by_part_number") =>
    LET listed  == json_loads(outcome.ret["sources"].v)
        sourced == SelectSeq(user_rows, C11_Sourced)
    IN  /\ listed.ok
        /\ isinstance(listed.val, "list")
        /\ listed.val.v = [i \in 1..Len(sourced) |-> C11_Entry(sourced[i])]
        /\ \A i \in 1..Len(user_rows) :
             ~C11_Sourced(user_rows[i]) =>
               \A k \in DOMAIN user_rows[i] \ {"sources"} :
                 ~_is_missing(user_rows[i][k]) => k \in DOMAIN outcome.ret

\* C11 witness: a row with a source file is followed by a row whose two
\* source fields are both missing; one entry is listed and the second
\* row's material is the merged material.
C11_Witness ==
  /\ Returned("merge_records_by_part_number")
  /\ Len(user_rows) = 2
  /\ Get(user_rows[1], "source_file") = f_b
  /\ ~C11_Sourced(user_rows[2])
  /\ Get(user_rows[2], "material") = v_Fe
  /\ outcome.ret["material"] = v_Fe
  /\ Len(json_loads(outcome.ret["sources"].v).val.v) = 1

\* the rank in PRIORITY of the system row r belongs to, 0 if it has none
C12_Rank(r) ==
  LET ps == {p \in 1..Len(PRIORITY) :
               Get(r, "source_system") = Str(PRIORITY[p])}
  IN  IF ps = {} THEN 0 ELSE SetMin(ps)

\* the non-missing values the rows of PRIORITY[p] supply for field X, each
\* as the trimmed text the resolver hands out
C12_Supplied(X, p) ==
  { _val(Get(arg_rows[i], k)) :
      i \in {j \in 1..Len(arg_rows) : C12_Rank(arg_rows[j]) = p},
      k \in Range(FIELD_MAP[X]) }
  \ {None}

\* C12: when the rows handed to resolve_field are rows of two systems A and
\* B of the priority list, B ranked higher than A, and both supply a
\* non-missing value for field X, the value returned for X is one supplied
\* by a row of B, in whatever order the rows come.
C12_PriorityLaw ==
  (Returned("resolve_field") /\ arg_fieldname \in DOMAIN FIELD_MAP) =>
    \A A, B \in 1..Len(PRIORITY) :
      ( /\ A < B
        /\ \A i \in 1..Len(arg_rows) : C12_Rank(arg_rows[i]) \in {A, B}
        /\ C12_Supplied(arg_fieldname, A) # {}
        /\ C12_Supplied(arg_fieldname, B) # {} )
      => outcome.ret \in C12_Supplied(arg_fieldname, B)

\* C12 witness: a vault row and a sap row both carry a material, the vault
\* row comes first, and the material of the sap row is returned.
C12_Witness ==
  /\ Returned("resolve_field")
  /\ arg_fieldname = "material"
  /\ Len(arg_rows) = 2
  /\ Get(arg_rows[1], "source_system") = sys_vault
  /\ Get(arg_rows[1], "material") = Str(<<" ","C","u"," ">>)
  /\ Get(arg_rows[2], "source_system") = sys_sap
  /\ Get(arg_rows[2], "material") = v_Zn
  /\ outcome.ret = v_Zn

\* C13: for every canonical field name of the master schema and every row
\* set, resolve_field returns a value or null and does not raise.
C13_NeverAnError ==
  called = "resolve_field" =>
    /\ outcome.exc = "none"
    /\ outcome.ret = None \/ isinstance(outcome.ret, "str")

\* C19: the source_system and source_file map_group_to_master returns are
\* those of the first row, in input order, of the highest-priority system
\* present among the rows; when no row's system is in the priority list
\* they are those of the first row, and both are null for no rows at all.
C19_BestSource ==
  Returned("map_group_to_master") =>
    LET ranked == {i \in 1..Len(arg_rows) : C12_Rank(arg_rows[i]) # 0}
        from(i) ==
          /\ outcome.ret["source_system"] = Get(arg_rows[i], "source_system")
          /\ outcome.ret["source_file"] = Get(arg_rows[i], "source_file")
    IN  IF arg_rows = <<>>
        THEN /\ outcome.ret["source_system"] = None
             /\ outcome.ret["source_file"] = None
        ELSE IF ranked = {} THEN from(1)
        ELSE \E i \in ranked :
               /\ \A j \in ranked :
                    /\ C12_Rank(arg_rows[j]) <= C12_Rank(arg_rows[i])
                    /\ C12_Rank(arg_rows[j]) = C12_Rank(arg_rows[i]) => i <= j
               /\ from(i)

\* C19 witness: a vault row is followed by a sap row of another file, and
\* the sap row's system and file are returned.
C19_Witness ==
  /\ Returned("map_group_to_master")
  /\ Len(arg_rows) = 2
  /\ Get(arg_rows[1], "source_system") = sys_vault
  /\ Get(arg_rows[1], "source_file") = f_a
  /\ Get(arg_rows[2], "source_system") = sys_sap
  /\ Get(arg_rows[2], "source_file") = f_b
  /\ outcome.ret["source_system"] = sys_sap
  /\ outcome.ret["source_file"] = f_b

\* row r holds a value that is neither null nor NaN
C20_HasValue(r) == \E k \in DOMAIN r : r[k] # None /\ r[k] # FloatNaN

\* the system row r is filed under: 'unknown' when its source_system is
\* absent, null or empty, its text otherwise
C20_System(r) ==
  IF "source_system" \notin DOMAIN r
     \/ r["source_system"] = None
     \/ r["source_system"] = Str(<<>>)
  THEN s_unknown
  ELSE py_str(r["source_system"])

\* row r without its null and NaN entries
C20_Stripped(r) ==
  [k \in {j \in DOMAIN r : r[j] # None /\ r[j] # FloatNaN} |-> r[k]]

C16_CanonicalNameShape ==
  Returned("_normalize_name") =>
    LET canonical == canonical_name(outcome.ret.v)
    IN  /\ \A i \in 1..Len(canonical) : canonical[i] \in AlnumLower \cup {"_"}
        /\ \A p \in 1..Len(PREFIXES) :
             ~starts_with(canonical, 1, PREFIXES[p] \o <<"_">>)

\* the canonical names of the columns of arg_df
C14_Groups ==
  {canonical_of(arg_df.columns[i].label) : i \in 1..Len(arg_df.columns)}

\* the columns of arg_df, by position, that belong to group canonical
C14_Members(canonical) ==
  {i \in 1..Len(arg_df.columns) :
     canonical_of(arg_df.columns[i].label) = canonical}

\* C14: for every canonical group with more than one original column, a
\* column already carrying the canonical name included, each row of the
\* output column holds the first non-missing value among the group's
\* columns in original column order, and null only when all of them are
\* missing in that row; columns of other groups have no effect on it.
C14_FirstNonNullWins ==
  Returned("normalize_and_merge_columns") =>
    \A canonical \in C14_Groups :
      Cardinality(C14_Members(canonical)) > 1 =>
        /\ has_column(outcome.ret, canonical)
        /\ \A r \in 1..arg_df.index :
             LET present == {i \in C14_Members(canonical) :
                               notna(arg_df.columns[i].cells[r])}
             IN  series_of(outcome.ret, canonical)[r] =
                   IF present = {} THEN None
                   ELSE arg_df.columns[SetMin(present)].cells[r]

\* the labels of df name one column each
C15_DistinctLabels(df) ==
  \A i, j \in 1..Len(df.columns) :
    i # j => df.columns[i].label # df.columns[j].label

\* C15: for an input batch with distinct column names, the output of
\* normalize_and_merge_columns has pairwise distinct column names, one per
\* canonical group, and as many rows as the input in the same order (a
\* column that is alone in its group keeps its cells row by row).
C15_DistinctColumns ==
  Returned("normalize_and_merge_columns") =>
    /\ C15_DistinctLabels(outcome.ret)
    /\ Range(labels(outcome.ret)) = C14_Groups
    /\ outcome.ret.index = arg_df.index
    /\ \A canonical \in C14_Groups :
         C14_Members(canonical) \in
           {{i} : i \in 1..Len(arg_df.columns)} =>
             \E i \in C14_Members(canonical) :
               series_of(outcome.ret, canonical) = arg_df.columns[i].cells

\* the value the Record Cleaner owes for cell v
C17_Cleaned(v) ==
  LET text == str_strip(py_str(v))
  IN  IF \/ v \in {None, FloatNaN}
         \/ text = <<>>
         \/ str_lower(text) \in { <<"n","a","n">>, <<"n","o","n","e">>,
                                  <<"n","u","l","l">> }
      THEN None
      ELSE Str(text)

\* C17: basic_cleaning returns a batch of the same columns and rows in
\* which every cell is null when the input cell is null, NaN or, once
\* trimmed, empty or nan/none/null in any case, and the trimmed string form
\* of the input cell otherwise, whatever the other cells hold; and every
\* cell it returns that is not null is present for _is_missing.
C17_RecordCleaner ==
  Returned("basic_cleaning") =>
    /\ labels(outcome.ret) = labels(arg_df)
    /\ outcome.ret.index = arg_df.index
    /\ \A i \in 1..Len(arg_df.columns), r \in 1..arg_df.index :
         LET x == outcome.ret.columns[i].cells[r]
         IN  /\ x = C17_Cleaned(arg_df.columns[i].cells[r])
             /\ x # None => ~_is_missing(x)

\* C17 witness: a column holds an untrimmed text above a nan sentinel, a
\* second column a number; the cleaned cells are the trimmed text, null
\* and the number's text.
C17_Witness ==
  /\ Returned("basic_cleaning")
  /\ Len(arg_df.columns) = 2
  /\ arg_df.index = 2
  /\ arg_df.columns[1].cells =
       << Str(<<" ","Z","n"," ">>), Str(<<" ","N","a","N"," ">>) >>
  /\ arg_df.columns[2].cells[1] = PyInt(<<"7">>)
  /\ outcome.ret.columns[1].cells = << v_Zn, None >>
  /\ outcome.ret.columns[2].cells[1] = Str(<<"7">>)

\* C18: for every input batch, an empty one included, the batch
\* cleanup_pipeline returns has the columns part_number, description,
\* material, dimensions, category_raw, category_master, cost, currency and
\* vendor_name, and a column absent from the input that no later stage
\* derives (every one but dimensions and category_master) holds nulls only.
C18_RequiredColumns ==
  Returned("cleanup_pipeline") =>
    \A n \in 1..Len(need_cols) :
      /\ has_column(outcome.ret, need_cols[n])
      /\ ( /\ need_cols[n] \notin C14_Groups
           /\ need_cols[n] \notin {c_dimensions, c_category_master} )
         => \A r \in 1..outcome.ret.index :
              series_of(outcome.ret, need_cols[n])[r] = None

\* the part number a cleaned row is grouped under
C21_Key(r) == Str(str_strip(py_str(Get(r, "part_number"))))

\* the rows of df_clean that carry part number g, in input order
C21_Members(records, g) ==
  SelectSeq(records,
            LAMBDA r : notna(Get(r, "part_number")) /\ C21_Key(r) = g)

C21_Groups(records) ==
  { C21_Key(records[i]) :
      i \in {j \in 1..Len(records) : notna(Get(records[j], "part_number"))} }

\* the record a pipeline owes group g: the merge of the stored row of g with
\* the rows of g, in input order (the web path trims part_number in the rows
\* and fills the required columns)
C21_Record(fn, table, records, g) ==
  IF fn = "run_stage2_from_django"
  THEN normalize_columns(
         << merge_db_with_user(
              db_row_of(table, g),
              [i \in 1..Len(C21_Members(records, g)) |->
                 [C21_Members(records, g)[i] EXCEPT !["part_number"] = g]]
            ).ret >>)[1]
  ELSE merge_db_and_user(fetch_part_by_number(table, g),
                         C21_Members(records, g)).ret

\* C21: in both Stage-2 pipelines every cleaned row with a non-null
\* part_number lands in exactly one group, the group of its trimmed
\* part_number; groups keep the input order of their rows; exactly one merged
\* record is produced per group; a row without part_number contributes to
\* no record.
C21_NoRowLost ==
  [][ (uploads' # uploads /\ C21_Groups(arg_rows') # {}) =>
        /\ outcome'.exc = "none"
        /\ Len(outcome'.ret) = Cardinality(C21_Groups(arg_rows'))
        /\ \A g \in C21_Groups(arg_rows') :
             Cardinality({k \in 1..Len(outcome'.ret) :
                            outcome'.ret[k] =
                              C21_Record(called', PartMaster, arg_rows', g)})
               = 1 ]_vars

\* C21 witness: a command-line run on two rows of one part number that
\* disagree on material returned one record, holding the later row's value.
C21_Witness ==
  /\ Returned("run_stage2")
  /\ Len(arg_rows) = 2
  /\ arg_rows[1]["part_number"] = pnA /\ arg_rows[1]["material"] = v_Zn
  /\ arg_rows[2]["part_number"] = pnA /\ arg_rows[2]["material"] = v_Cu
  /\ Len(outcome.ret) = 1
  /\ outcome.ret[1]["material"] = v_Cu

\* the rows of df_clean that lack a part_number
C22_Lacking(records) ==
  {i \in 1..Len(records) : ~notna(Get(records[i], "part_number"))}

\* the upload returned, and its output holds the part-numbered rows' records
\* and nothing else
C22_Excluded ==
  /\ outcome.exc = "none"
  /\ Len(outcome.ret) = Cardinality(C21_Groups(arg_rows))
  /\ \A k \in 1..Len(outcome.ret) :
       outcome.ret[k]["part_number"] \in C21_Groups(arg_rows)

\* C22 as stated: when some or all rows of an upload lack a part_number,
\* run_stage2_from_django leaves those rows out of the output and completes
\* without raising an error.
C22_MissingNeverAborts ==
  (called = "run_stage2_from_django" /\ C22_Lacking(arg_rows) # {}) =>
    C22_Excluded

\* C22 amended: when some rows of an upload lack a part_number and at least
\* one row has one, run_stage2_from_django leaves those rows out of the
\* output and completes without raising an error; when every row lacks one,
\* it raises ValueError.
C22_SomeMissingNotFatal ==
  (called = "run_stage2_from_django" /\ C22_Lacking(arg_rows) # {}) =>
    IF C22_Lacking(arg_rows) = 1..Len(arg_rows)
    THEN outcome.exc = "ValueError"
    ELSE C22_Excluded

\* C22 witness: an upload of a row without part_number and a row of A1
\* returned one record, the one of A1.
C22_Witness ==
  /\ Returned("run_stage2_from_django")
  /\ Len(arg_rows) = 2
  /\ arg_rows[1]["part_number"] = None
  /\ arg_rows[2]["part_number"] = pnA
  /\ Len(outcome.ret) = 1
  /\ outcome.ret[1]["part_number"] = pnA

\* the provenance list a returned record carries
C23_Sources(rec) == json_loads(rec["sources"].v)

\* C23: merging a record R that merge_db_with_user returned with itself as
\* the only user row returns a record equal to R on every field but sources,
\* whose sources list is the list of R followed by one entry, the entry of
\* R's own source_system and source_file.
C23_Idempotence ==
  Returned("merge_db_with_user") =>
    \A R \in {outcome.ret} :
    \A again \in {merge_db_with_user(R, << R >>)} :
      /\ again.exc = "none"
      /\ DOMAIN again.ret = DOMAIN R
      /\ [col \in DOMAIN R \ {"sources"} |-> again.ret[col]]
           = [col \in DOMAIN R \ {"sources"} |-> R[col]]
      /\ \A before \in {C23_Sources(R)}, after \in {C23_Sources(again.ret)} :
           /\ before.ok /\ after.ok
           /\ isinstance(before.val, "list") /\ isinstance(after.val, "list")
           /\ Len(after.val.v) = Len(before.val.v) + 1
           /\ SubSeq(after.val.v, 1, Len(before.val.v)) = before.val.v
           /\ after.val.v[Len(after.val.v)] =
                Dict(<< <<k_source_system,
                          IF R["source_system"] = None THEN None
                          ELSE Str(py_str(R["source_system"]))>>,
                        <<k_source_file,
                          IF R["source_file"] = None THEN None
                          ELSE Str(py_str(R["source_file"]))>> >>)

\* C23 witness: a record with a stored provenance of two entries, one user
\* row and a material was returned; merged with itself it has four entries.
C23_Witness ==
  /\ Returned("merge_db_with_user")
  /\ Get(Prior, "sources") = Str(json_dumps(List(<<entry_bi, entry_sap>>)))
  /\ Len(user_rows) = 1
  /\ outcome.ret["material"] = v_Fe
  /\ Len(C23_Sources(
           merge_db_with_user(outcome.ret, << outcome.ret >>).ret).val.v) = 4

\* the aliases of field X under which row r holds a non-missing value, as
\* positions in the alias list of X
C24_Aliases(X, r) ==
  {k \in 1..Len(FIELD_MAP[X]) : _val(Get(r, FIELD_MAP[X][k])) # None}

\* the value of the first alias of X that row r holds
C24_FirstAlias(X, r) ==
  _val(Get(r, FIELD_MAP[X][SetMin(C24_Aliases(X, r))]))

\* the ranks of the priority systems that supply field X
C24_Supplying(X) ==
  {p \in 1..Len(PRIORITY) : C12_Supplied(X, p) # {}}

\* C24: when a priority system supplies the field, resolve_field returns the
\* value of the earliest row of the highest such system that holds any
\* non-missing alias, and of that row the first non-missing alias in the
\* field's alias list: row order goes before alias order.
C24_TierTieBreak ==
  ( /\ Returned("resolve_field")
    /\ arg_fieldname \in DOMAIN FIELD_MAP
    /\ C24_Supplying(arg_fieldname) # {} ) =>
    LET top  == SetMax(C24_Supplying(arg_fieldname))
        rows == {i \in 1..Len(arg_rows) :
                   /\ C12_Rank(arg_rows[i]) = top
                   /\ C24_Aliases(arg_fieldname, arg_rows[i]) # {}}
    IN  outcome.ret = C24_FirstAlias(arg_fieldname, arg_rows[SetMin(rows)])

\* C24 witness: two sap rows, the first with a material only under the
\* second alias, the second with one under the first alias; the first row's
\* value is returned.
C24_Witness ==
  /\ Returned("resolve_field")
  /\ arg_fieldname = "material"
  /\ Len(arg_rows) = 2
  /\ Get(arg_rows[1], "source_system") = sys_sap
  /\ _val(Get(arg_rows[1], "material")) = None
  /\ Get(arg_rows[1], "sap_material") = v_Fe
  /\ Get(arg_rows[2], "source_system") = sys_sap
  /\ Get(arg_rows[2], "material") = v_Zn
  /\ outcome.ret = v_Fe

\* C25: when no row of a priority system supplies the field, resolve_field
\* returns the first non-missing alias value found scanning all rows in input
\* order, the aliases in list order within a row; and whatever the systems,
\* the result is null exactly when no row holds a non-missing value under
\* any alias of the field.
C25_Fallback ==
  (Returned("resolve_field") /\ arg_fieldname \in DOMAIN FIELD_MAP) =>
    LET rows == {i \in 1..Len(arg_rows) :
                   C24_Aliases(arg_fieldname, arg_rows[i]) # {}}
    IN  /\ outcome.ret = None <=> rows = {}
        /\ (C24_Supplying(arg_fieldname) = {} /\ rows # {}) =>
             outcome.ret =
               C24_FirstAlias(arg_fieldname, arg_rows[SetMin(rows)])

\* C25 witness: no row is of a priority system; the first row holds a
\* material only under the second alias, the second under the first; the
\* first row's value is returned.
C25_Witness ==
  /\ Returned("resolve_field")
  /\ arg_fieldname = "material"
  /\ Len(arg_rows) = 2
  /\ Get(arg_rows[1], "source_system") = Str(<<>>)
  /\ Get(arg_rows[1], "sap_material") = v_Fe
  /\ Get(arg_rows[2], "source_system") = Str(s_user)
  /\ Get(arg_rows[2], "material") = v_R7
  /\ outcome.ret = v_Fe

\* the name before the prefix rule: lower-cased, every run of other
\* characters one underscore, no underscore at either end
C26_Base ==
  strip_underscores(sub_non_alnum(str_lower(str_strip(py_str(arg_name)))))

\* the prefixes base starts with, each followed by an underscore
C26_Matching(base) ==
  {p \in 1..Len(PREFIXES) :
     /\ Len(base) > Len(PREFIXES[p])
     /\ SubSeq(base, 1, Len(PREFIXES[p]) + 1) = PREFIXES[p] \o <<"_">>}

\* C26: _normalize_name cuts off at most one source-system prefix, the first
\* of the list that matches, and leaves a non-empty rest; a second prefix
\* stacked behind the first stays; the result neither starts nor ends with
\* an underscore and holds no two underscores in a row.
C26_PrefixRule ==
  Returned("_normalize_name") =>
    LET base   == C26_Base
        result == outcome.ret.v
        rest(p) == SubSeq(base, Len(PREFIXES[p]) + 2, Len(base))
    IN  /\ IF C26_Matching(base) = {} THEN result = base
           ELSE /\ result = rest(SetMin(C26_Matching(base)))
                /\ result # <<>>
        /\ \A p \in C26_Matching(base), q \in 1..Len(PREFIXES) :
             q \in C26_Matching(rest(p)) => q \in C26_Matching(result)
        /\ result # <<>> => result[1] # "_" /\ result[Len(result)] # "_"
        /\ \A i \in 1..(Len(result) - 1) :
             ~(result[i] = "_" /\ result[i + 1] = "_")

\* C26 witness: 'SAP_po-x' loses sap_ and keeps po_.
C26_Witness ==
  /\ Returned("_normalize_name")
  /\ arg_name = Str(<<"S","A","P","_","p","o","-","x">>)
  /\ outcome.ret = Str(<<"p","o","_","x">>)

\* the dimensions text owed to a row without dimensions, by its description:
\* the first "<number> x <number> [unit]" of the text, mm for no unit
C27_Inferred(desc) ==
  CASE desc = d_rod -> Str(<<"1","0","x","2",".","5"," ","c","m">>)
    [] desc = d_two -> Str(<<"1","x","2"," ","m","m">>)
    [] OTHER        -> None

\* C27: ensure_dimensions keeps the dimensions of a row that has one; a row
\* without one gets "<a>x<b> <unit>" from the first match in its
\* description, with unit mm when the text names none, and stays null
\* when the description is missing or holds no match; no other column of
\* any row is changed.
C27_DimensionInference ==
  called = "ensure_dimensions" =>
    /\ outcome.exc = "none"
    /\ outcome.ret.index = arg_df.index
    /\ labels(outcome.ret) =
         IF has_column(arg_df, c_dimensions) THEN labels(arg_df)
         ELSE Append(labels(arg_df), c_dimensions)
    /\ \A i \in 1..Len(arg_df.columns) :
         arg_df.columns[i].label # c_dimensions =>
           outcome.ret.columns[i] = arg_df.columns[i]
    /\ \A r \in 1..arg_df.index :
         cell(outcome.ret, c_dimensions, r) =
           IF cell(arg_df, c_dimensions, r) # None
           THEN cell(arg_df, c_dimensions, r)
           ELSE C27_Inferred(cell(arg_df, c_description, r))

\* C27 witness: of two rows the first keeps its dimensions although its
\* description holds a size, the second gets its dimensions from its
\* description, and the material column is as it was.
C27_Witness ==
  /\ Returned("ensure_dimensions")
  /\ arg_df.index = 2
  /\ labels(arg_df) = << <<"m","a","t","e","r","i","a","l">>, c_description,
                         c_dimensions >>
  /\ series_of(arg_df, c_description) = << d_two, d_rod >>
  /\ series_of(arg_df, c_dimensions) = << d_3x4, None >>
  /\ series_of(outcome.ret, c_dimensions)
       = << d_3x4, Str(<<"1","0","x","2",".","5"," ","c","m">>) >>
  /\ outcome.ret.columns[1] = arg_df.columns[1]

\* the record owed to part number g: the merge of the stored row of g, if
\* any, with the rows of g in input order; no other row and no other stored
\* record is looked at
C28_Own(fn, g) ==
  LET stored == {o \in PartMaster : o["part_number"] = g}
      mine   == C21_Members(arg_rows, g)
  IN  IF fn = "run_stage2_from_django"
      THEN merge_db_with_user(
             db_row_of(stored, g),
             [i \in 1..Len(mine) |-> [mine[i] EXCEPT !["part_number"] = g]]
           ).ret
      ELSE merge_db_and_user(fetch_part_by_number(stored, g), mine).ret

\* the merged_results of the loop run group after group in insertion order
C28_Sequential(fn) ==
  IF fn = "run_stage2_from_django"
  THEN merge_groups(PartMaster, loop_rows(fn, arg_rows))
  ELSE stage2_merge_groups(PartMaster, loop_rows(fn, arg_rows))

\* C28: in whatever order and interleaving the groups of a Stage-2 run are
\* read and merged, the merged records are those of the sequential loop, and
\* the record of a part number is the merge of its own stored record with
\* its own rows in input order.
C28_GroupsIndependent ==
  (DOMAIN work # {} /\ \A pn \in DOMAIN work : work[pn].stage = "merged") =>
    /\ Len(outcome.ret) = Cardinality(DOMAIN work)
    /\ Range(outcome.ret) = Range(C28_Sequential(called))
    /\ Range(outcome.ret) =
         {C28_Own(called, g) : g \in C21_Groups(arg_rows)}

\* C28 witness: A1 has a stored record and B2 has none; B2 was merged
\* before A1, and both records are there.
C28_Witness ==
  /\ DOMAIN work = {pnA, pnB}
  /\ \A pn \in DOMAIN work : work[pn].stage = "merged"
  /\ work[pnA].db_row # None
  /\ work[pnB].db_row = None
  /\ arg_rows[1]["part_number"] = pnA
  /\ outcome.ret[1]["part_number"] = pnB
  /\ outcome.ret[2]["part_number"] = pnA

\* the part numbers that have a row in a table
C30_Stored(table) == {o["part_number"] : o \in table}

\* C30: a part number that has a row in PartMaster still has one after
\* every web upload, command-line run and Stage-1 refresh.
C30_StoredPartsPersist ==
  [][C30_Stored(PartMaster) \subseteq C30_Stored(PartMaster')]_vars

====
